---- MODULE Spec2Model ----
(***************************************************************************)
(* The Active Provider Manager of m3u-filter                               *)
(* (src/api/model/active_provider_manager.rs): per-provider atomic         *)
(* connection counters, round-robin cursors of priority groups, the        *)
(* main_idx cursor of a multi-provider lineup, connection guards and the   *)
(* release tasks their drop spawns.                                        *)
(*                                                                         *)
(* Threads and tasks are anonymous: th is the bag of the local states of   *)
(* the calls in progress (an idle thread has no local state), so states    *)
(* that differ only in which thread runs which call are one state.         *)
(*                                                                         *)
(* Every action is one access to shared memory (an atomic load, store,     *)
(* fetch_add or fetch_sub) together with the thread-local computation that *)
(* follows it up to the next shared access.  Cursor values are 0-based as  *)
(* in the code; TLA+ sequences are 1-based, so the provider at cursor idx  *)
(* is element idx + 1.                                                     *)
(***************************************************************************)
EXTENDS Integers, Sequences, FiniteSets, Bags, TLC

\* AtomicU16: fetch_add / fetch_sub wrap modulo 2^16.
U16 == 65536

\* Bounds of the model: concurrent threads and guards kept by callers, per
\* specification.
NumThreads == 2
ConcGuards == 1
SeqGuards == 7
OnceThreads == 4
FairThreads == 2
FairGuards == 1
FreshGuards == 9
RelThreads == 2
RelGuards == 1
UnlThreads == 2
UnlGuards == 2
PeekGuards == 4
ApiThreads == 1
ApiGuards == 2
MaxAliases == 2
MaxPriority == 1
MaxLimit == 1
AddGuards == 1
ScanThreads == 2
ScanGuards == 2
LimitThreads == 2
LimitGuards == 1
TryGuards == 3
RangeThreads == 2
RangeGuards == 2
TermThreads == 2
TermGuards == 4
IdleGuards == 3
PredGuards == 3
PredMax == 2

VARIABLES config, lineups, conn, gidx, midx, held, th, maxThreads, maxHeld,
          history

vars == <<config, lineups, conn, gidx, midx, held, th, maxThreads, maxHeld,
          history>>

\* The configuration and the bounds: set by Init, never changed.
fixed == <<config, lineups, maxThreads, maxHeld, history>>

-----------------------------------------------------------------------------
(* Configuration records (ConfigInput, ConfigInputAlias) and construction. *)

ConfigInputAlias(id, name, priority, max_connections) ==
    [id |-> id, name |-> name, priority |-> priority,
     max_connections |-> max_connections]

ConfigInput(id, name, priority, max_connections, aliases) ==
    [id |-> id, name |-> name, priority |-> priority,
     max_connections |-> max_connections, aliases |-> aliases]

\* ProviderConfig::new; the counter (AtomicU16::new(0)) lives in conn.
ProviderConfigNew(cfg) ==
    [id |-> cfg.id, name |-> cfg.name,
     max_connections |-> cfg.max_connections, priority |-> cfg.priority]

\* ProviderConfig::new_alias
ProviderConfigNewAlias(cfg, alias) ==
    [id |-> alias.id, name |-> alias.name,
     max_connections |-> alias.max_connections, priority |-> alias.priority]

\* Mutant: the bucket keys sorted descending.
RECURSIVE SortByPriorityDescending(_)
SortByPriorityDescending(S) ==
    IF S = {} THEN <<>>
    ELSE LET m == CHOOSE x \in S : \A y \in S : x >= y
         IN <<m>> \o SortByPriorityDescending(S \ {m})

\* values.sort_by(|(p1, _), (p2, _)| p1.cmp(p2)): the bucket keys ascending.
RECURSIVE SortByPriority(_)
SortByPriority(S) ==
    IF S = {} THEN <<>>
    ELSE LET m == CHOOSE x \in S : \A y \in S : x <= y
         IN <<m>> \o SortByPriority(S \ {m})

\* SingleProviderLineup::new
SingleProviderLineupNew(cfg) ==
    [kind |-> "Single", providers |-> << <<ProviderConfigNew(cfg)>> >>]

\* MultiProviderLineup::new: the input, then its aliases, bucketed by
\* priority (insertion order kept inside a bucket), buckets sorted ascending.
MultiProviderLineupNew(input) ==
    LET inputs == <<ProviderConfigNew(input)>> \o
                  [i \in 1..Len(input.aliases) |->
                       ProviderConfigNewAlias(input, input.aliases[i])]
        keys == SortByPriority({inputs[i].priority : i \in 1..Len(inputs)})
    IN [kind |-> "Multi",
        providers |-> [g \in 1..Len(keys) |->
                          SelectSeq(inputs, LAMBDA p : p.priority = keys[g])]]

\* ActiveProviderManager::add_provider: the lineup pushed for one input.
AddProvider(input) ==
    IF Len(input.aliases) > 0 THEN MultiProviderLineupNew(input)
    ELSE SingleProviderLineupNew(input)

\* ActiveProviderManager::new: one lineup per input, in order.
ManagerNew(cfg) == [i \in 1..Len(cfg) |-> AddProvider(cfg[i])]

-----------------------------------------------------------------------------
(* Read-only helpers over the lineups.                                     *)

NoKey == <<0, 0, 0>>

GroupCount(l) == Len(lineups[l].providers)

GroupLen(l, g) == Len(lineups[l].providers[g])

\* Every provider of the manager, as <<lineup, group, member>> (1-based).
Keys ==
    UNION {UNION {{<<l, g, p>> : p \in 1..GroupLen(l, g)} :
                  g \in 1..GroupCount(l)} : l \in 1..Len(lineups)}

Cfg(k) == lineups[k[1]].providers[k[2]][k[3]]

Conn(k) == conn[k[1]][k[2]][k[3]]

Held(k) == held[k[1]][k[2]][k[3]]

\* Order in which every scan of the code walks providers: lineups in
\* insertion order, groups in order, members in order.
Before(a, b) ==
    \/ a[1] < b[1]
    \/ a[1] = b[1] /\ a[2] < b[2]
    \/ a[1] = b[1] /\ a[2] = b[2] /\ a[3] < b[3]

FirstKey(S) == IF S = {} THEN NoKey
               ELSE CHOOSE k \in S : \A j \in S \ {k} : Before(k, j)

\* Mutant: a name that matches nothing falls back to the first provider.
GetProviderConfigOrFirst(name) ==
    IF {k \in Keys : Cfg(k).name = name} = {} THEN FirstKey(Keys)
    ELSE FirstKey({k \in Keys : Cfg(k).name = name})

\* ActiveProviderManager::get_provider_config: first provider called name.
GetProviderConfig(name) == FirstKey({k \in Keys : Cfg(k).name = name})

\* Mutant: release applied to the first provider of the lineup, whatever
\* its name.
LineupReleaseFirst(l, name) == FirstKey({k \in Keys : k[1] = l})

\* SingleProviderLineup::release / MultiProviderLineup::release: the
\* provider of lineup l whose counter the release is applied to.
LineupReleaseTarget(l, name) ==
    FirstKey({k \in Keys : k[1] = l /\ Cfg(k).name = name})

\* ActiveProviderManager::release_connection: lookup, then lineup.release.
ReleaseTarget(name) ==
    LET found == GetProviderConfig(name)
    IN IF found = NoKey THEN NoKey ELSE LineupReleaseTarget(found[1], name)

\* Mutant: is_exhausted compares with > as is_over_limit does.
IsExhaustedAboveMax(max, c) == max > 0 /\ c > max

\* ProviderConfig::is_exhausted on a loaded counter value.
IsExhausted(max, c) == max > 0 /\ c >= max

\* Mutant: is_over_limit compares with >= as is_exhausted does.
IsOverLimitAtMax(max, c) == max > 0 /\ c >= max

\* ProviderConfig::is_over_limit on a loaded counter value.
IsOverLimit(max, c) == max > 0 /\ c > max

\* Mutant: the `max_connections == 0` branch is missing.
TryAllocateCodeNoUnlimited(max, c, grace) ==
    IF (~grace /\ c < max) \/ (grace /\ c <= max)
    THEN (IF c < max THEN 1 ELSE 2)
    ELSE 3

\* Mutant: the returned code decided with <= instead of <.
TryAllocateCodeAvailableAtMax(max, c, grace) ==
    IF max = 0 THEN 1
    ELSE IF (~grace /\ c < max) \/ (grace /\ c <= max)
         THEN (IF c <= max THEN 1 ELSE 2)
         ELSE 3

\* ProviderConfig::try_allocate, the decision taken on the loaded value:
\* 1 = Available, 2 = GracePeriod (both followed by fetch_add), 3 = denied.
TryAllocateCode(max, c, grace) ==
    IF max = 0 THEN 1
    ELSE IF (~grace /\ c < max) \/ (grace /\ c <= max)
         THEN (IF c < max THEN 1 ELSE 2)
         ELSE 3

\* ProviderConfigWrapper::try_allocate: the code as a ProviderAllocation.
AllocationOf(code) ==
    IF code = 1 THEN "Available"
    ELSE IF code = 2 THEN "GracePeriod" ELSE "Exhausted"

\* AtomicU16::fetch_add(1) in try_allocate and force_allocate.
FetchAdd(c) == (c + 1) % U16

\* Mutant: release adds where it should subtract.
FetchSubAdds(c) == (c + 1) % U16

\* Mutant: release gives back two slots.
FetchSubByTwo(c) == (c + U16 - 2) % U16

\* AtomicU16::fetch_sub(1) in ProviderConfig::release.
FetchSub(c) == (c + U16 - 1) % U16

\* Mutant: the zero clamp of release off by one.
ReleaseDecrementsAboveOne(c) == c > 1

\* ProviderConfig::release: `if connections > 0`.
ReleaseDecrements(c) == c > 0

-----------------------------------------------------------------------------
(* Lineup acquire as a function of the state it is called in (no other     *)
(* call interfering): c are the counters, s the counters and cursors.      *)

\* for _ in start..provider_count of acquire_next_provider_from_group: the
\* first member of group g, from ring position start to the end of the
\* group, that try_allocate(grace) grants on counters c; 0 if none.
FirstGranted(l, g, c, start, grace) ==
    LET hits == {i \in (start + 1)..GroupLen(l, g) :
                    TryAllocateCode(Cfg(<<l, g, i>>).max_connections,
                                    c[l][g][i], grace) # 3}
    IN IF hits = {} THEN 0 ELSE CHOOSE i \in hits : \A j \in hits : i <= j

\* The two attempts MultiProviderLineup::acquire makes on group g: strict
\* from the cursor, then, the strict loop having stored the wrapped cursor
\* 0, with grace from the first member.
GroupGranted(l, g, c, cursor) ==
    LET strict == FirstGranted(l, g, c,
                               IF GroupLen(l, g) = 1 THEN 0 ELSE cursor, FALSE)
    IN IF strict # 0 THEN strict ELSE FirstGranted(l, g, c, 0, TRUE)

\* SingleProviderLineup::acquire / MultiProviderLineup::acquire: the
\* allocation returned in state s.
LineupAcquire(l, s) ==
    LET gs == {g \in (s.midx[l] + 1)..GroupCount(l) :
                  GroupGranted(l, g, s.conn, s.gidx[l][g]) # 0}
        g == CHOOSE x \in gs : \A y \in gs : x <= y
        k == IF lineups[l].kind = "Single" THEN <<l, 1, 1>>
             ELSE <<l, g, GroupGranted(l, g, s.conn, s.gidx[l][g])>>
        code == TryAllocateCode(Cfg(k).max_connections,
                                s.conn[k[1]][k[2]][k[3]], TRUE)
    IN IF lineups[l].kind = "Multi" /\ gs = {}
       THEN [res |-> "Exhausted", key |-> NoKey]
       ELSE [res |-> AllocationOf(code),
             key |-> IF code = 3 THEN NoKey ELSE k]

-----------------------------------------------------------------------------
(* Calls in progress.  A record of th is the local state of one call: its  *)
(* position pc and its local variables; pc = "done" is a caller holding    *)
(* the allocation its call returned.  Guards that callers keep for later   *)
(* are counted in held.                                                    *)

\* The shared state at the start of a call, kept with the call when history
\* is on (it is what "at the time of the call" refers to).
Snapshot ==
    IF history THEN [conn |-> conn, gidx |-> gidx, midx |-> midx] ELSE <<>>

\* The name a call was made with, kept with the call when history is on.
Argument(name) == IF history THEN name ELSE ""

Fresh ==
    [pc |-> "idle", op |-> "none", li |-> 0, gi |-> 0, pi |-> 0,
     grace |-> FALSE, idx |-> 0, left |-> 0, code |-> 0, ex |-> 0,
     res |-> "none", key |-> NoKey, gk |-> NoKey, tag |-> FALSE,
     snap |-> <<>>, arg |-> "", map |-> {}, loads |-> <<>>]

Running == BagToSet(th)

Names == {Cfg(k).name : k \in Keys} \cup {"unknown"}

TotalHeld ==
    LET RECURSIVE Sum(_)
        Sum(S) == IF S = {} THEN 0
                  ELSE LET k == CHOOSE x \in S : TRUE
                       IN Held(k) + Sum(S \ {k})
    IN Sum(Keys)

\* A thread starts a call whose local state is r.
Begin(r) ==
    /\ BagCardinality(th) < maxThreads
    /\ th' = th (+) SetToBag({r})

\* The call in local state r takes a step to local state r2.
Move(r, r2) == th' = (th (-) SetToBag({r})) (+) SetToBag({r2})

\* The call or task in local state r ends.
End(r) == th' = th (-) SetToBag({r})

\* The call returns allocation res (of provider key): the guard is built.
Finish(r, res, key) ==
    [Fresh EXCEPT !.pc = "done", !.op = r.op, !.li = r.li, !.res = res,
                  !.key = key, !.snap = r.snap, !.arg = r.arg]

\* Entry of acquire_next_provider_from_group(group g, grace): a
\* SingleProviderGroup goes to try_allocate, a MultiProviderGroup loads idx.
EnterGroup(r, g, grace) ==
    IF GroupLen(r.li, g) = 1
    THEN [r EXCEPT !.pc = "load", !.gi = g, !.pi = 1, !.grace = grace,
                   !.idx = 0, !.left = 0, !.code = 0]
    ELSE [r EXCEPT !.pc = "load_idx", !.gi = g, !.pi = 0, !.grace = grace,
                   !.idx = 0, !.left = 0, !.code = 0]

\* Mutant: a group that denied under grace is tried again until a slot is free.
AfterDeniedSpin(r) ==
    IF ~r.grace THEN EnterGroup(r, r.gi, TRUE)
    ELSE EnterGroup(r, r.gi, TRUE)

\* MultiProviderLineup::acquire after group r.gi returned Exhausted: the
\* strict attempt is retried with grace; after the grace attempt the for
\* loop goes on to the next group, and ends at the last one.
AfterDenied(r) ==
    IF ~r.grace THEN EnterGroup(r, r.gi, TRUE)
    ELSE IF r.gi < GroupCount(r.li) THEN EnterGroup(r, r.gi + 1, FALSE)
    ELSE Finish(r, "Exhausted", NoKey)

\* Mutant: the loop forgets `idx = (idx + 1) % provider_count`.
NextInRingNoAdvance(r) ==
    IF r.left > 0
    THEN [r EXCEPT !.pc = "load", !.pi = r.idx + 1,
                   !.left = r.left - 1, !.code = 0]
    ELSE [r EXCEPT !.pc = "store_idx", !.pi = 0, !.code = 0]

\* Next iteration of `for _ in start..provider_count`, or the store after it.
NextInRing(r) ==
    IF r.left > 0
    THEN [r EXCEPT !.pc = "load", !.pi = r.idx + 1,
                   !.idx = (r.idx + 1) % GroupLen(r.li, r.gi),
                   !.left = r.left - 1, !.code = 0]
    ELSE [r EXCEPT !.pc = "store_idx", !.pi = 0, !.code = 0]

\* ActiveProviderManager::acquire_connection up to the first shared access.
AcquireConnection(name) ==
    /\ LET found == GetProviderConfig(name)
           r == [Fresh EXCEPT !.op = "acquire", !.snap = Snapshot,
                              !.arg = Argument(name)]
       IN Begin(IF found = NoKey THEN Finish(r, "Exhausted", NoKey)
                ELSE IF lineups[found[1]].kind = "Single"
                THEN [r EXCEPT !.pc = "load", !.li = found[1], !.gi = 1,
                               !.pi = 1, !.grace = TRUE]
                ELSE [r EXCEPT !.pc = "load_main", !.li = found[1]])
    /\ UNCHANGED <<conn, gidx, midx, held, fixed>>

\* MultiProviderLineup::acquire: self.index.load, then the first group.
LoadMainIdx(r) ==
    /\ r.pc = "load_main"
    /\ LET main_idx == midx[r.li]
       IN Move(r, IF main_idx < GroupCount(r.li)
                  THEN EnterGroup(r, main_idx + 1, FALSE)
                  ELSE Finish(r, "Exhausted", NoKey))
    /\ UNCHANGED <<conn, gidx, midx, held, fixed>>

\* acquire_next_provider_from_group, MultiProviderGroup: index.load and the
\* range start..provider_count of the for loop.
LoadGroupIdx(r) ==
    /\ r.pc = "load_idx"
    /\ LET start == gidx[r.li][r.gi]
           n == GroupLen(r.li, r.gi) - start
       IN Move(r, NextInRing([r EXCEPT !.idx = start,
                                       !.left = IF n > 0 THEN n ELSE 0]))
    /\ UNCHANGED <<conn, gidx, midx, held, fixed>>

\* Mutant: a denied try_allocate still counts the caller.
TryAllocateLoadCountsDenied(r) ==
    /\ r.pc = "load"
    /\ LET k == <<r.li, r.gi, r.pi>>
           code == TryAllocateCode(Cfg(k).max_connections, Conn(k), r.grace)
       IN /\ conn' = IF code = 3
                     THEN [conn EXCEPT ![k[1]][k[2]][k[3]] = FetchAdd(@)]
                     ELSE conn
          /\ Move(r, IF code # 3 THEN [r EXCEPT !.pc = "add", !.code = code]
                     ELSE IF lineups[r.li].kind = "Single"
                     THEN Finish(r, "Exhausted", NoKey)
                     ELSE IF GroupLen(r.li, r.gi) = 1 THEN AfterDenied(r)
                     ELSE NextInRing(r))
    /\ UNCHANGED <<gidx, midx, held, fixed>>

\* ProviderConfig::try_allocate: current_connections.load and the decision.
TryAllocateLoad(r) ==
    /\ r.pc = "load"
    /\ LET k == <<r.li, r.gi, r.pi>>
           code == TryAllocateCode(Cfg(k).max_connections, Conn(k), r.grace)
       IN Move(r, IF code # 3 THEN [r EXCEPT !.pc = "add", !.code = code]
                  ELSE IF lineups[r.li].kind = "Single"
                  THEN Finish(r, "Exhausted", NoKey)
                  ELSE IF GroupLen(r.li, r.gi) = 1 THEN AfterDenied(r)
                  ELSE NextInRing(r))
    /\ UNCHANGED <<conn, gidx, midx, held, fixed>>

\* ProviderConfig::try_allocate: current_connections.fetch_add(1).
TryAllocateAdd(r) ==
    /\ r.pc = "add"
    /\ LET k == <<r.li, r.gi, r.pi>>
       IN /\ conn' = [conn EXCEPT ![k[1]][k[2]][k[3]] = FetchAdd(@)]
          /\ Move(r, IF lineups[r.li].kind = "Single"
                     THEN Finish(r, AllocationOf(r.code), k)
                     ELSE IF GroupLen(r.li, r.gi) = 1
                     THEN [r EXCEPT !.pc = "exh", !.ex = 1]
                     ELSE [r EXCEPT !.pc = "store_hit"])
    /\ UNCHANGED <<gidx, midx, held, fixed>>

\* Mutant: the cursor is stored on a hit only; a walk in which every visited
\* provider denied leaves it where it was.
StoreGroupIdxOnHitOnly(r) ==
    /\ r.pc \in {"store_idx", "store_hit"}
    /\ gidx' = IF r.pc = "store_hit"
               THEN [gidx EXCEPT ![r.li][r.gi] = r.idx]
               ELSE gidx
    /\ Move(r, IF r.pc = "store_hit" THEN [r EXCEPT !.pc = "exh", !.ex = 1]
               ELSE AfterDenied(r))
    /\ UNCHANGED <<conn, midx, held, fixed>>

\* acquire_next_provider_from_group: index.store(idx), on a grant
\* ("store_hit") and after a loop in which every visited provider denied.
StoreGroupIdx(r) ==
    /\ r.pc \in {"store_idx", "store_hit"}
    /\ gidx' = [gidx EXCEPT ![r.li][r.gi] = r.idx]
    /\ Move(r, IF r.pc = "store_hit" THEN [r EXCEPT !.pc = "exh", !.ex = 1]
               ELSE AfterDenied(r))
    /\ UNCHANGED <<conn, midx, held, fixed>>

\* ProviderPriorityGroup::is_exhausted after a grant: one counter load per
\* member, false at the first member that is not exhausted.
GroupIsExhausted(r) ==
    /\ r.pc = "exh"
    /\ LET k == <<r.li, r.gi, r.ex>>
       IN Move(r, IF ~IsExhausted(Cfg(k).max_connections, Conn(k))
                  THEN Finish(r, AllocationOf(r.code), <<r.li, r.gi, r.pi>>)
                  ELSE IF r.ex < GroupLen(r.li, r.gi)
                  THEN [r EXCEPT !.ex = r.ex + 1]
                  ELSE [r EXCEPT !.pc = "store_main", !.ex = 0])
    /\ UNCHANGED <<conn, gidx, midx, held, fixed>>

\* Mutant: the main index is stored without the reduction modulo the number of
\* groups.
StoreMainIdxNoWrap(r) ==
    /\ r.pc = "store_main"
    /\ midx' = [midx EXCEPT ![r.li] = r.gi]
    /\ Move(r, Finish(r, AllocationOf(r.code), <<r.li, r.gi, r.pi>>))
    /\ UNCHANGED <<conn, gidx, held, fixed>>

\* MultiProviderLineup::acquire: self.index.store((index + 1) % count),
\* where index = r.gi - 1.
StoreMainIdx(r) ==
    /\ r.pc = "store_main"
    /\ midx' = [midx EXCEPT ![r.li] = r.gi % GroupCount(r.li)]
    /\ Move(r, Finish(r, AllocationOf(r.code), <<r.li, r.gi, r.pi>>))
    /\ UNCHANGED <<conn, gidx, held, fixed>>

\* Mutant: the forced acquire respects the limit as try_allocate(true) does.
ForceExactRespectsLimit(name) ==
    /\ LET k == GetProviderConfig(name)
           r == [Fresh EXCEPT !.op = "force", !.snap = Snapshot,
                              !.arg = Argument(name)]
       IN IF k = NoKey \/ TryAllocateCode(Cfg(k).max_connections, Conn(k),
                                          TRUE) = 3
          THEN /\ Begin(Finish(r, "Exhausted", NoKey))
               /\ UNCHANGED conn
          ELSE /\ Begin(Finish([r EXCEPT !.li = k[1]], "Available", k))
               /\ conn' = [conn EXCEPT ![k[1]][k[2]][k[3]] = FetchAdd(@)]
    /\ UNCHANGED <<gidx, midx, held, fixed>>

\* ActiveProviderManager::force_exact_acquire_connection: the lookup and
\* ProviderConfig::force_allocate (one fetch_add).
ForceExactAcquireConnection(name) ==
    /\ LET k == GetProviderConfig(name)
           r == [Fresh EXCEPT !.op = "force", !.snap = Snapshot,
                              !.arg = Argument(name)]
       IN IF k = NoKey
          THEN /\ Begin(Finish(r, "Exhausted", NoKey))
               /\ UNCHANGED conn
          ELSE /\ Begin(Finish([r EXCEPT !.li = k[1]], "Available", k))
               /\ conn' = [conn EXCEPT ![k[1]][k[2]][k[3]] = FetchAdd(@)]
    /\ UNCHANGED <<gidx, midx, held, fixed>>

\* The caller keeps the guard of a granted allocation for later.
KeepGuard(r) ==
    /\ r.pc = "done"
    /\ r.res \in {"Available", "GracePeriod"}
    /\ TotalHeld < maxHeld
    /\ held' = [held EXCEPT ![r.key[1]][r.key[2]][r.key[3]] = @ + 1]
    /\ End(r)
    /\ UNCHANGED <<conn, gidx, midx, fixed>>

\* Drop for ProviderConnectionGuard, arm ProviderAllocation::Exhausted.
DropExhausted(r) ==
    /\ r.pc = "done"
    /\ r.res = "Exhausted"
    /\ End(r)
    /\ UNCHANGED <<conn, gidx, midx, held, fixed>>

\* Drop for ProviderConnectionGuard, arms Available / GracePeriod: the
\* guard on provider k is gone and tokio::spawn starts a task that runs
\* manager.release_connection(&provider_config.name).  With history on, one
\* task at a time may be tagged, to follow it to its end.
DropGuard(k, tag) ==
    /\ Held(k) > 0
    /\ tag => history /\ \A r \in Running : ~r.tag
    /\ held' = [held EXCEPT ![k[1]][k[2]][k[3]] = @ - 1]
    /\ Begin([Fresh EXCEPT !.pc = "rel_load", !.op = "release", !.gk = k,
                           !.key = ReleaseTarget(Cfg(k).name), !.tag = tag])
    /\ UNCHANGED <<conn, gidx, midx, fixed>>

\* ProviderConfig::release: current_connections.load, `if connections > 0`.
ReleaseLoad(r) ==
    /\ r.pc = "rel_load"
    /\ IF r.key # NoKey /\ ReleaseDecrements(Conn(r.key))
       THEN Move(r, [r EXCEPT !.pc = "rel_sub"])
       ELSE End(r)
    /\ UNCHANGED <<conn, gidx, midx, held, fixed>>

\* Mutant: the decrement of a release is lost.
ReleaseSubKeepsCounter(r) ==
    /\ r.pc = "rel_sub"
    /\ conn' = conn
    /\ End(r)
    /\ UNCHANGED <<gidx, midx, held, fixed>>

\* ProviderConfig::release: current_connections.fetch_sub(1).
ReleaseSub(r) ==
    /\ r.pc = "rel_sub"
    /\ conn' = [conn EXCEPT ![r.key[1]][r.key[2]][r.key[3]] = FetchSub(@)]
    /\ End(r)
    /\ UNCHANGED <<gidx, midx, held, fixed>>

-----------------------------------------------------------------------------
(* The redirect path (get_next_provider), which inspects without taking a  *)
(* slot, and the other operations of the manager.  A call of get_next has  *)
(* op = "next" and returns "Some" (of provider key) or "None".             *)

\* Mutant: get_next ignores the grace flag.
GetNextOkStrict(max, c, grace) == max = 0 \/ c < max

\* ProviderConfig::get_next, the decision taken on the loaded value.
GetNextOk(max, c, grace) ==
    max = 0 \/ (~grace /\ c < max) \/ (grace /\ c <= max)

\* Entry of get_next_provider_from_group(group g, grace).
PeekEnterGroup(r, g, grace) ==
    IF GroupLen(r.li, g) = 1
    THEN [r EXCEPT !.pc = "peek", !.gi = g, !.pi = 1, !.grace = grace,
                   !.idx = 0, !.left = 0]
    ELSE [r EXCEPT !.pc = "peek_idx", !.gi = g, !.pi = 0, !.grace = grace,
                   !.idx = 0, !.left = 0]

\* MultiProviderLineup::get_next after group r.gi returned None: retry with
\* grace, then the next group, then None.
PeekAfterDenied(r) ==
    IF ~r.grace THEN PeekEnterGroup(r, r.gi, TRUE)
    ELSE IF r.gi < GroupCount(r.li) THEN PeekEnterGroup(r, r.gi + 1, FALSE)
    ELSE Finish(r, "None", NoKey)

\* Next iteration of `for _ in start..provider_count` of
\* get_next_provider_from_group, or the store after it.
PeekNextInRing(r) ==
    IF r.left > 0
    THEN [r EXCEPT !.pc = "peek", !.pi = r.idx + 1,
                   !.idx = (r.idx + 1) % GroupLen(r.li, r.gi),
                   !.left = r.left - 1]
    ELSE [r EXCEPT !.pc = "peek_store_idx", !.pi = 0]

\* ActiveProviderManager::get_next_provider up to the first shared access;
\* SingleProviderLineup::get_next asks get_next(false).
GetNextProvider(name) ==
    /\ LET found == GetProviderConfig(name)
           r == [Fresh EXCEPT !.op = "next", !.snap = Snapshot,
                              !.arg = Argument(name)]
       IN Begin(IF found = NoKey THEN Finish(r, "None", NoKey)
                ELSE IF lineups[found[1]].kind = "Single"
                THEN [r EXCEPT !.pc = "peek", !.li = found[1], !.gi = 1,
                               !.pi = 1, !.grace = FALSE]
                ELSE [r EXCEPT !.pc = "peek_main", !.li = found[1]])
    /\ UNCHANGED <<conn, gidx, midx, held, fixed>>

\* MultiProviderLineup::get_next: self.index.load, then the first group.
PeekLoadMainIdx(r) ==
    /\ r.pc = "peek_main"
    /\ LET main_idx == midx[r.li]
       IN Move(r, IF main_idx < GroupCount(r.li)
                  THEN PeekEnterGroup(r, main_idx + 1, FALSE)
                  ELSE Finish(r, "None", NoKey))
    /\ UNCHANGED <<conn, gidx, midx, held, fixed>>

\* get_next_provider_from_group, MultiProviderGroup: index.load and the
\* range start..provider_count of the for loop.
PeekLoadGroupIdx(r) ==
    /\ r.pc = "peek_idx"
    /\ LET start == gidx[r.li][r.gi]
           n == GroupLen(r.li, r.gi) - start
       IN Move(r, PeekNextInRing([r EXCEPT !.idx = start,
                                           !.left = IF n > 0 THEN n ELSE 0]))
    /\ UNCHANGED <<conn, gidx, midx, held, fixed>>

\* Mutant: the inspection takes the slot it finds (fetch_add as in
\* try_allocate).
GetNextLoadCommits(r) ==
    /\ r.pc = "peek"
    /\ LET k == <<r.li, r.gi, r.pi>>
           ok == GetNextOk(Cfg(k).max_connections, Conn(k), r.grace)
       IN /\ conn' = IF ok
                     THEN [conn EXCEPT ![k[1]][k[2]][k[3]] = FetchAdd(@)]
                     ELSE conn
          /\ Move(r, IF ok
                     THEN (IF lineups[r.li].kind = "Single"
                           THEN Finish(r, "Some", k)
                           ELSE IF GroupLen(r.li, r.gi) = 1
                           THEN [r EXCEPT !.pc = "peek_exh", !.ex = 1]
                           ELSE [r EXCEPT !.pc = "peek_store_hit"])
                     ELSE IF lineups[r.li].kind = "Single"
                     THEN Finish(r, "None", NoKey)
                     ELSE IF GroupLen(r.li, r.gi) = 1 THEN PeekAfterDenied(r)
                     ELSE PeekNextInRing(r))
    /\ UNCHANGED <<gidx, midx, held, fixed>>

\* ProviderConfig::get_next: current_connections.load and the decision; no
\* counter is written.
GetNextLoad(r) ==
    /\ r.pc = "peek"
    /\ LET k == <<r.li, r.gi, r.pi>>
           ok == GetNextOk(Cfg(k).max_connections, Conn(k), r.grace)
       IN Move(r, IF ok
                  THEN (IF lineups[r.li].kind = "Single"
                        THEN Finish(r, "Some", k)
                        ELSE IF GroupLen(r.li, r.gi) = 1
                        THEN [r EXCEPT !.pc = "peek_exh", !.ex = 1]
                        ELSE [r EXCEPT !.pc = "peek_store_hit"])
                  ELSE IF lineups[r.li].kind = "Single"
                  THEN Finish(r, "None", NoKey)
                  ELSE IF GroupLen(r.li, r.gi) = 1 THEN PeekAfterDenied(r)
                  ELSE PeekNextInRing(r))
    /\ UNCHANGED <<conn, gidx, midx, held, fixed>>

\* get_next_provider_from_group: index.store(idx), on a hit
\* ("peek_store_hit") and after a loop in which no visited provider passed.
PeekStoreGroupIdx(r) ==
    /\ r.pc \in {"peek_store_idx", "peek_store_hit"}
    /\ gidx' = [gidx EXCEPT ![r.li][r.gi] = r.idx]
    /\ Move(r, IF r.pc = "peek_store_hit"
               THEN [r EXCEPT !.pc = "peek_exh", !.ex = 1]
               ELSE PeekAfterDenied(r))
    /\ UNCHANGED <<conn, midx, held, fixed>>

\* ProviderPriorityGroup::is_exhausted after a hit of get_next.
PeekGroupIsExhausted(r) ==
    /\ r.pc = "peek_exh"
    /\ LET k == <<r.li, r.gi, r.ex>>
       IN Move(r, IF ~IsExhausted(Cfg(k).max_connections, Conn(k))
                  THEN Finish(r, "Some", <<r.li, r.gi, r.pi>>)
                  ELSE IF r.ex < GroupLen(r.li, r.gi)
                  THEN [r EXCEPT !.ex = r.ex + 1]
                  ELSE [r EXCEPT !.pc = "peek_store_main", !.ex = 0])
    /\ UNCHANGED <<conn, gidx, midx, held, fixed>>

\* MultiProviderLineup::get_next: self.index.store((index + 1) % count).
PeekStoreMainIdx(r) ==
    /\ r.pc = "peek_store_main"
    /\ midx' = [midx EXCEPT ![r.li] = r.gi % GroupCount(r.li)]
    /\ Move(r, Finish(r, "Some", <<r.li, r.gi, r.pi>>))
    /\ UNCHANGED <<conn, gidx, held, fixed>>

\* ActiveProviderManager::is_over_limit: the lookup and one counter load.
IsOverLimitCall(name) ==
    /\ LET k == GetProviderConfig(name)
           r == [Fresh EXCEPT !.op = "over", !.snap = Snapshot,
                              !.arg = Argument(name)]
       IN Begin(IF k = NoKey THEN Finish(r, "false", NoKey)
                ELSE Finish([r EXCEPT !.li = k[1]],
                            IF IsOverLimit(Cfg(k).max_connections, Conn(k))
                            THEN "true" ELSE "false", k))
    /\ UNCHANGED <<conn, gidx, midx, held, fixed>>

\* The i-th provider in the order active_connections walks them.
KeyAt(i) ==
    CHOOSE k \in Keys : Cardinality({j \in Keys : Before(j, k)}) = i - 1

\* Mutant: the closure inserts the count whatever it is.
AddProviderCountAlways(m, name, count) ==
    {e \in m : e[1] # name} \cup {<<name, count>>}

\* The closure add_provider of active_connections on a loaded count:
\* `if count > 0 { result.insert(name, count) }`; the HashMap m is the set
\* of its <<name, count>> entries, an insert replacing the entry of the name.
AddProviderCount(m, name, count) ==
    IF count > 0 THEN {e \in m : e[1] # name} \cup {<<name, count>>} ELSE m

\* ActiveProviderManager::active_connections is called: the empty HashMap.
ActiveConnections ==
    /\ Begin([Fresh EXCEPT !.pc = "scan", !.op = "active", !.idx = 0,
                           !.snap = Snapshot])
    /\ UNCHANGED <<conn, gidx, midx, held, fixed>>

\* active_connections: provider.current_connections.load of the next
\* provider and the closure on it; after the last provider, the result
\* (None for an empty map).  With history on, the values loaded are kept.
ActiveConnectionsLoad(r) ==
    /\ r.pc = "scan"
    /\ LET k == KeyAt(r.idx + 1)
           m == AddProviderCount(r.map, Cfg(k).name, Conn(k))
           ls == IF history THEN Append(r.loads, Conn(k)) ELSE <<>>
       IN Move(r, IF r.idx + 1 < Cardinality(Keys)
                  THEN [r EXCEPT !.idx = @ + 1, !.map = m, !.loads = ls]
                  ELSE [Fresh EXCEPT !.pc = "done", !.op = "active",
                                     !.res = IF m = {} THEN "None" ELSE "Some",
                                     !.map = m, !.loads = ls,
                                     !.snap = r.snap])
    /\ UNCHANGED <<conn, gidx, midx, held, fixed>>

\* The caller of get_next_provider, is_over_limit or active_connections has
\* used the value.
ReturnValue(r) ==
    /\ r.pc = "done"
    /\ r.op \in {"next", "over", "active"}
    /\ End(r)
    /\ UNCHANGED <<conn, gidx, midx, held, fixed>>

\* Counters are small when no release has wrapped one around.
CountersInRange ==
    \A k \in Keys : Conn(k) <= Cfg(k).max_connections + maxThreads + maxHeld + 1

\* ActiveProviderManager::release_connection called directly (it is pub):
\* a release that no guard stands for.  Explored while CountersInRange.
ReleaseConnection(name) ==
    /\ CountersInRange
    /\ Begin([Fresh EXCEPT !.pc = "rel_load", !.op = "release",
                           !.key = ReleaseTarget(name)])
    /\ UNCHANGED <<conn, gidx, midx, held, fixed>>

-----------------------------------------------------------------------------
(* Configurations and specifications.                                      *)

\* State after ActiveProviderManager::new(cfg), with the given number of
\* threads and of guards that callers may keep at once.
InitWith(cfg, threads, guards, hist) ==
    /\ config = cfg
    /\ lineups = ManagerNew(cfg)
    /\ conn = [l \in 1..Len(cfg) |->
                 [g \in 1..Len(ManagerNew(cfg)[l].providers) |->
                    [p \in 1..Len(ManagerNew(cfg)[l].providers[g]) |-> 0]]]
    /\ held = [l \in 1..Len(cfg) |->
                 [g \in 1..Len(ManagerNew(cfg)[l].providers) |->
                    [p \in 1..Len(ManagerNew(cfg)[l].providers[g]) |-> 0]]]
    /\ gidx = [l \in 1..Len(cfg) |->
                 [g \in 1..Len(ManagerNew(cfg)[l].providers) |-> 0]]
    /\ midx = [l \in 1..Len(cfg) |-> 0]
    /\ th = EmptyBag
    /\ maxThreads = threads
    /\ maxHeld = guards
    /\ history = hist

\* One input without aliases, max_connections = m.
CfgSingle(m) == <<ConfigInput(1, "p1", 1, m, <<>>)>>

\* Two priorities, one provider each (test_provider_with_priority_alias).
CfgPriority ==
    <<ConfigInput(1, "p1", 1, 1, <<ConfigInputAlias(2, "a2", 0, 1)>>)>>

\* Two siblings of equal priority, max_connections 1 each.
CfgPair ==
    <<ConfigInput(1, "p1", 1, 1, <<ConfigInputAlias(2, "a2", 1, 1)>>)>>

\* Three siblings of equal priority: one MultiProviderGroup.
CfgRing ==
    <<ConfigInput(1, "p1", 1, 1, <<ConfigInputAlias(2, "a2", 1, 1),
                                   ConfigInputAlias(3, "a3", 1, 1)>>)>>

\* test_provider_with_multiple_aliases: groups [a3], [p1, a2].
CfgMixed ==
    <<ConfigInput(1, "p1", 1, 1, <<ConfigInputAlias(2, "a2", 1, 2),
                                   ConfigInputAlias(3, "a3", 0, 1)>>)>>

Next ==
    \/ \E name \in Names : AcquireConnection(name)
    \/ \E r \in Running : LoadMainIdx(r)
    \/ \E r \in Running : LoadGroupIdx(r)
    \/ \E r \in Running : TryAllocateLoad(r)
    \/ \E r \in Running : TryAllocateAdd(r)
    \/ \E r \in Running : StoreGroupIdx(r)
    \/ \E r \in Running : GroupIsExhausted(r)
    \/ \E r \in Running : StoreMainIdx(r)
    \/ \E name \in Names : ForceExactAcquireConnection(name)
    \/ \E r \in Running : KeepGuard(r)
    \/ \E r \in Running : DropExhausted(r)
    \/ \E k \in Keys, tag \in BOOLEAN : DropGuard(k, tag)
    \/ \E r \in Running : ReleaseLoad(r)
    \/ \E r \in Running : ReleaseSub(r)

\* Concurrent callers.
Init ==
    \E cfg \in {CfgSingle(1), CfgPair} :
        InitWith(cfg, NumThreads, ConcGuards, FALSE)

Spec == Init /\ [][Next]_vars

\* Acquires, guard drops and releases only.
SeqNext ==
    \/ \E name \in Names : AcquireConnection(name)
    \/ \E r \in Running : LoadMainIdx(r)
    \/ \E r \in Running : LoadGroupIdx(r)
    \/ \E r \in Running : TryAllocateLoad(r)
    \/ \E r \in Running : TryAllocateAdd(r)
    \/ \E r \in Running : StoreGroupIdx(r)
    \/ \E r \in Running : GroupIsExhausted(r)
    \/ \E r \in Running : StoreMainIdx(r)
    \/ \E r \in Running : KeepGuard(r)
    \/ \E r \in Running : DropExhausted(r)
    \/ \E k \in Keys, tag \in BOOLEAN : DropGuard(k, tag)
    \/ \E r \in Running : ReleaseLoad(r)
    \/ \E r \in Running : ReleaseSub(r)

\* One caller at a time: every call runs to its return without interference.
SeqInit ==
    \E cfg \in {CfgSingle(1), CfgSingle(2), CfgPriority, CfgRing, CfgMixed} :
        InitWith(cfg, 1, SeqGuards, TRUE)

SeqSpec == SeqInit /\ [][SeqNext]_vars

\* test_concurrent_acquire: n threads, each calling acquire once on a
\* single-provider lineup and holding what it got; nothing is released.
OnceInit ==
    \E m \in 1..2, n \in 1..OnceThreads :
        InitWith(CfgSingle(m), n, 0, FALSE)

OnceNext ==
    \/ \E k \in Keys : AcquireConnection(Cfg(k).name)
    \/ \E r \in Running : TryAllocateLoad(r)
    \/ \E r \in Running : TryAllocateAdd(r)

OnceSpec == OnceInit /\ [][OnceNext]_vars

\* Concurrent callers of a single-provider lineup, with the release tasks
\* scheduled fairly: a spawned task that can take its next step takes it.
FairInit ==
    \E m \in 1..2 : InitWith(CfgSingle(m), FairThreads, FairGuards, TRUE)

FairNext ==
    \/ \E name \in Names : AcquireConnection(name)
    \/ \E r \in Running : TryAllocateLoad(r)
    \/ \E r \in Running : TryAllocateAdd(r)
    \/ \E name \in Names : ForceExactAcquireConnection(name)
    \/ \E r \in Running : KeepGuard(r)
    \/ \E r \in Running : DropExhausted(r)
    \/ \E k \in Keys, tag \in BOOLEAN : DropGuard(k, tag)
    \/ \E r \in Running : ReleaseLoad(r)
    \/ \E r \in Running : ReleaseSub(r)

ReleaseStep(r) == ReleaseLoad(r) \/ ReleaseSub(r)

FairSpec ==
    /\ FairInit
    /\ [][FairNext]_vars
    /\ WF_vars(\E r \in Running : r.tag /\ ReleaseStep(r))
    /\ WF_vars(\E r \in Running : ~r.tag /\ ReleaseStep(r))

\* Three siblings of equal priority with limits 1, 3, 1.
CfgUneven ==
    <<ConfigInput(1, "p1", 1, 1, <<ConfigInputAlias(2, "a2", 1, 3),
                                   ConfigInputAlias(3, "a3", 1, 1)>>)>>

\* A freshly built lineup on which acquire is called again and again, one
\* call at a time, every granted guard being kept: nothing is released.
FreshInit ==
    \E cfg \in {CfgPriority, CfgPair, CfgRing, CfgMixed, CfgUneven} :
        InitWith(cfg, 1, FreshGuards, TRUE)

FreshNext ==
    \/ \E name \in Names : AcquireConnection(name)
    \/ \E r \in Running : LoadMainIdx(r)
    \/ \E r \in Running : LoadGroupIdx(r)
    \/ \E r \in Running : TryAllocateLoad(r)
    \/ \E r \in Running : TryAllocateAdd(r)
    \/ \E r \in Running : StoreGroupIdx(r)
    \/ \E r \in Running : GroupIsExhausted(r)
    \/ \E r \in Running : StoreMainIdx(r)
    \/ \E r \in Running : KeepGuard(r)
    \/ \E r \in Running : DropExhausted(r)

FreshSpec == FreshInit /\ [][FreshNext]_vars

\* Concurrent callers of a single-provider lineup that also call
\* release_connection directly, any number of times.
RelInit ==
    \E m \in 1..2 : InitWith(CfgSingle(m), RelThreads, RelGuards, FALSE)

RelNext ==
    \/ \E name \in Names : AcquireConnection(name)
    \/ \E r \in Running : TryAllocateLoad(r)
    \/ \E r \in Running : TryAllocateAdd(r)
    \/ \E r \in Running : KeepGuard(r)
    \/ \E r \in Running : DropExhausted(r)
    \/ \E k \in Keys : DropGuard(k, FALSE)
    \/ \E name \in Names : ReleaseConnection(name)
    \/ \E r \in Running : ReleaseLoad(r)
    \/ \E r \in Running : ReleaseSub(r)

RelSpec == RelInit /\ [][RelNext]_vars

\* Concurrent callers of a lineup whose only provider is unlimited
\* (max_connections = 0).
UnlInit == InitWith(CfgSingle(0), UnlThreads, UnlGuards, FALSE)

UnlNext ==
    \/ \E name \in Names : AcquireConnection(name)
    \/ \E r \in Running : TryAllocateLoad(r)
    \/ \E r \in Running : TryAllocateAdd(r)
    \/ \E r \in Running : KeepGuard(r)
    \/ \E r \in Running : DropExhausted(r)
    \/ \E k \in Keys : DropGuard(k, FALSE)
    \/ \E r \in Running : ReleaseLoad(r)
    \/ \E r \in Running : ReleaseSub(r)
    \/ \E name \in Names : IsOverLimitCall(name)
    \/ \E r \in Running : ReturnValue(r)

UnlSpec == UnlInit /\ [][UnlNext]_vars

\* One caller at a time that acquires, releases and asks for the next
\* provider (the redirect path).
PeekInit ==
    \E cfg \in {CfgSingle(1), CfgPriority, CfgRing, CfgMixed} :
        InitWith(cfg, 1, PeekGuards, TRUE)

PeekNext ==
    \/ \E name \in Names : AcquireConnection(name)
    \/ \E r \in Running : LoadMainIdx(r)
    \/ \E r \in Running : LoadGroupIdx(r)
    \/ \E r \in Running : TryAllocateLoad(r)
    \/ \E r \in Running : TryAllocateAdd(r)
    \/ \E r \in Running : StoreGroupIdx(r)
    \/ \E r \in Running : GroupIsExhausted(r)
    \/ \E r \in Running : StoreMainIdx(r)
    \/ \E r \in Running : KeepGuard(r)
    \/ \E r \in Running : DropExhausted(r)
    \/ \E k \in Keys : DropGuard(k, FALSE)
    \/ \E r \in Running : ReleaseLoad(r)
    \/ \E r \in Running : ReleaseSub(r)
    \/ \E name \in Names : GetNextProvider(name)
    \/ \E r \in Running : PeekLoadMainIdx(r)
    \/ \E r \in Running : PeekLoadGroupIdx(r)
    \/ \E r \in Running : GetNextLoad(r)
    \/ \E r \in Running : PeekStoreGroupIdx(r)
    \/ \E r \in Running : PeekGroupIsExhausted(r)
    \/ \E r \in Running : PeekStoreMainIdx(r)
    \/ \E r \in Running : ReturnValue(r)

PeekSpec == PeekInit /\ [][PeekNext]_vars

\* Callers of every operation of the manager.
ApiInit ==
    \E cfg \in {CfgSingle(1), CfgPair} :
        InitWith(cfg, ApiThreads, ApiGuards, FALSE)

ApiNext ==
    \/ \E name \in Names : AcquireConnection(name)
    \/ \E r \in Running : LoadMainIdx(r)
    \/ \E r \in Running : LoadGroupIdx(r)
    \/ \E r \in Running : TryAllocateLoad(r)
    \/ \E r \in Running : TryAllocateAdd(r)
    \/ \E r \in Running : StoreGroupIdx(r)
    \/ \E r \in Running : GroupIsExhausted(r)
    \/ \E r \in Running : StoreMainIdx(r)
    \/ \E name \in Names : ForceExactAcquireConnection(name)
    \/ \E r \in Running : KeepGuard(r)
    \/ \E r \in Running : DropExhausted(r)
    \/ \E k \in Keys : DropGuard(k, FALSE)
    \/ \E name \in Names : ReleaseConnection(name)
    \/ \E r \in Running : ReleaseLoad(r)
    \/ \E r \in Running : ReleaseSub(r)
    \/ \E name \in Names : GetNextProvider(name)
    \/ \E r \in Running : PeekLoadMainIdx(r)
    \/ \E r \in Running : PeekLoadGroupIdx(r)
    \/ \E r \in Running : GetNextLoad(r)
    \/ \E r \in Running : PeekStoreGroupIdx(r)
    \/ \E r \in Running : PeekGroupIsExhausted(r)
    \/ \E r \in Running : PeekStoreMainIdx(r)
    \/ \E name \in Names : IsOverLimitCall(name)
    \/ \E r \in Running : ReturnValue(r)

ApiSpec == ApiInit /\ [][ApiNext]_vars

\* Names of the aliases of an input, by position in its alias list.
AliasNames == <<"a2", "a3", "a4", "a5">>

\* Alias lists of length n: the alias at position i has id i + 1, any
\* priority in 0..MaxPriority and any limit in 0..MaxLimit (0: unlimited).
AliasLists(n) ==
    {[i \in 1..n |-> ConfigInputAlias(i + 1, AliasNames[i], f[i][1], f[i][2])] :
        f \in [1..n -> (0..MaxPriority) \X (0..MaxLimit)]}

\* The inputs add_provider is given: aliases absent or empty (both <<>>),
\* or up to MaxAliases of them.
AddInputs ==
    {ConfigInput(1, "p1", pr, m, al) :
        pr \in 0..MaxPriority, m \in 0..MaxLimit,
        al \in UNION {AliasLists(n) : n \in 0..MaxAliases}}

\* A manager built from one input of any shape, on which acquire is called
\* one call at a time.
AddInit == \E input \in AddInputs : InitWith(<<input>>, 1, AddGuards, TRUE)

AddNext ==
    \/ \E name \in Names : AcquireConnection(name)
    \/ \E r \in Running : LoadMainIdx(r)
    \/ \E r \in Running : LoadGroupIdx(r)
    \/ \E r \in Running : TryAllocateLoad(r)
    \/ \E r \in Running : TryAllocateAdd(r)
    \/ \E r \in Running : StoreGroupIdx(r)
    \/ \E r \in Running : GroupIsExhausted(r)
    \/ \E r \in Running : StoreMainIdx(r)
    \/ \E r \in Running : KeepGuard(r)
    \/ \E r \in Running : DropExhausted(r)

AddSpec == AddInit /\ [][AddNext]_vars

\* Two inputs without aliases: two single-provider lineups.
CfgTwoInputs ==
    <<ConfigInput(1, "p1", 1, 1, <<>>), ConfigInput(2, "p2", 1, 1, <<>>)>>

\* Concurrent callers of acquire on two lineups, who keep the guards they
\* are granted, and callers of active_connections.
ScanInit == InitWith(CfgTwoInputs, ScanThreads, ScanGuards, TRUE)

ScanNext ==
    \/ \E name \in Names : AcquireConnection(name)
    \/ \E r \in Running : TryAllocateLoad(r)
    \/ \E r \in Running : TryAllocateAdd(r)
    \/ \E r \in Running : KeepGuard(r)
    \/ \E r \in Running : DropExhausted(r)
    \/ ActiveConnections
    \/ \E r \in Running : ActiveConnectionsLoad(r)
    \/ \E r \in Running : ReturnValue(r)

ScanSpec == ScanInit /\ [][ScanNext]_vars

\* An input with limit 1 and an unlimited alias of the same priority.
CfgUnlimitedAlias ==
    <<ConfigInput(1, "p1", 1, 1, <<ConfigInputAlias(2, "a2", 1, 0)>>)>>

\* Concurrent callers that acquire, force, release and ask is_over_limit,
\* on a limited provider alone, with a limited sibling and with an unlimited
\* sibling.
LimitInit ==
    \E cfg \in {CfgSingle(1), CfgPair, CfgUnlimitedAlias} :
        InitWith(cfg, LimitThreads, LimitGuards, FALSE)

LimitNext ==
    \/ \E name \in Names : AcquireConnection(name)
    \/ \E r \in Running : LoadMainIdx(r)
    \/ \E r \in Running : LoadGroupIdx(r)
    \/ \E r \in Running : TryAllocateLoad(r)
    \/ \E r \in Running : TryAllocateAdd(r)
    \/ \E r \in Running : StoreGroupIdx(r)
    \/ \E r \in Running : GroupIsExhausted(r)
    \/ \E r \in Running : StoreMainIdx(r)
    \/ \E name \in Names : ForceExactAcquireConnection(name)
    \/ \E r \in Running : KeepGuard(r)
    \/ \E r \in Running : DropExhausted(r)
    \/ \E k \in Keys : DropGuard(k, FALSE)
    \/ \E r \in Running : ReleaseLoad(r)
    \/ \E r \in Running : ReleaseSub(r)
    \/ \E name \in Names : IsOverLimitCall(name)
    \/ \E r \in Running : ReturnValue(r)

LimitSpec == LimitInit /\ [][LimitNext]_vars

\* One caller at a time, so that every try_allocate runs from its load to
\* its fetch_add without interference, on limited and unlimited providers;
\* forced acquires take counters beyond the grace slot.
TryInit ==
    \E cfg \in {CfgSingle(0), CfgSingle(1), CfgSingle(2), CfgPair,
                 CfgUnlimitedAlias} :
        InitWith(cfg, 1, TryGuards, FALSE)

TryNext ==
    \/ \E name \in Names : AcquireConnection(name)
    \/ \E r \in Running : LoadMainIdx(r)
    \/ \E r \in Running : LoadGroupIdx(r)
    \/ \E r \in Running : TryAllocateLoad(r)
    \/ \E r \in Running : TryAllocateAdd(r)
    \/ \E r \in Running : StoreGroupIdx(r)
    \/ \E r \in Running : GroupIsExhausted(r)
    \/ \E r \in Running : StoreMainIdx(r)
    \/ \E name \in Names : ForceExactAcquireConnection(name)
    \/ \E r \in Running : KeepGuard(r)
    \/ \E r \in Running : DropExhausted(r)
    \/ \E k \in Keys : DropGuard(k, FALSE)
    \/ \E r \in Running : ReleaseLoad(r)
    \/ \E r \in Running : ReleaseSub(r)

TrySpec == TryInit /\ [][TryNext]_vars

\* Concurrent acquire_connection and get_next_provider on lineups with a
\* group of several providers; guards are kept, never dropped.
RangeInit ==
    \E cfg \in {CfgPair, CfgMixed} :
        InitWith(cfg, RangeThreads, RangeGuards, FALSE)

RangeNext ==
    \/ \E name \in Names : AcquireConnection(name)
    \/ \E r \in Running : LoadMainIdx(r)
    \/ \E r \in Running : LoadGroupIdx(r)
    \/ \E r \in Running : TryAllocateLoad(r)
    \/ \E r \in Running : TryAllocateAdd(r)
    \/ \E r \in Running : StoreGroupIdx(r)
    \/ \E r \in Running : GroupIsExhausted(r)
    \/ \E r \in Running : StoreMainIdx(r)
    \/ \E r \in Running : KeepGuard(r)
    \/ \E r \in Running : DropExhausted(r)
    \/ \E name \in Names : GetNextProvider(name)
    \/ \E r \in Running : PeekLoadMainIdx(r)
    \/ \E r \in Running : PeekLoadGroupIdx(r)
    \/ \E r \in Running : GetNextLoad(r)
    \/ \E r \in Running : PeekStoreGroupIdx(r)
    \/ \E r \in Running : PeekGroupIsExhausted(r)
    \/ \E r \in Running : PeekStoreMainIdx(r)
    \/ \E r \in Running : ReturnValue(r)

RangeSpec == RangeInit /\ [][RangeNext]_vars

\* Concurrent acquire_connection and get_next_provider with enough guards to
\* bring every counter above its limit; guards are kept, so no counter ever
\* goes down.
TermInit ==
    \E cfg \in {CfgSingle(1), CfgPair} :
        InitWith(cfg, TermThreads, TermGuards, FALSE)

TermNext ==
    \/ \E name \in Names : AcquireConnection(name)
    \/ \E r \in Running : LoadMainIdx(r)
    \/ \E r \in Running : LoadGroupIdx(r)
    \/ \E r \in Running : TryAllocateLoad(r)
    \/ \E r \in Running : TryAllocateAdd(r)
    \/ \E r \in Running : StoreGroupIdx(r)
    \/ \E r \in Running : GroupIsExhausted(r)
    \/ \E r \in Running : StoreMainIdx(r)
    \/ \E r \in Running : KeepGuard(r)
    \/ \E r \in Running : DropExhausted(r)
    \/ \E name \in Names : GetNextProvider(name)
    \/ \E r \in Running : PeekLoadMainIdx(r)
    \/ \E r \in Running : PeekLoadGroupIdx(r)
    \/ \E r \in Running : GetNextLoad(r)
    \/ \E r \in Running : PeekStoreGroupIdx(r)
    \/ \E r \in Running : PeekGroupIsExhausted(r)
    \/ \E r \in Running : PeekStoreMainIdx(r)
    \/ \E r \in Running : ReturnValue(r)

TermSpec == TermInit /\ [][TermNext]_vars

\* One call or release task at a time: acquire, forced acquire, guard drops
\* and direct release_connection calls, on limited and unlimited providers.
IdleInit ==
    \E cfg \in {CfgSingle(0), CfgSingle(1), CfgPair} :
        InitWith(cfg, 1, IdleGuards, FALSE)

IdleNext ==
    \/ \E name \in Names : AcquireConnection(name)
    \/ \E r \in Running : LoadMainIdx(r)
    \/ \E r \in Running : LoadGroupIdx(r)
    \/ \E r \in Running : TryAllocateLoad(r)
    \/ \E r \in Running : TryAllocateAdd(r)
    \/ \E r \in Running : StoreGroupIdx(r)
    \/ \E r \in Running : GroupIsExhausted(r)
    \/ \E r \in Running : StoreMainIdx(r)
    \/ \E name \in Names : ForceExactAcquireConnection(name)
    \/ \E r \in Running : KeepGuard(r)
    \/ \E r \in Running : DropExhausted(r)
    \/ \E k \in Keys : DropGuard(k, FALSE)
    \/ \E name \in Names : ReleaseConnection(name)
    \/ \E r \in Running : ReleaseLoad(r)
    \/ \E r \in Running : ReleaseSub(r)

IdleSpec == IdleInit /\ [][IdleNext]_vars

\* One call at a time: acquire, forced acquire and get_next on unlimited and
\* limited providers, alone and in a group, with guards kept.
PredInit ==
    \E cfg \in {CfgSingle(0), CfgSingle(1), CfgSingle(2), CfgPair,
                 CfgUnlimitedAlias} :
        InitWith(cfg, 1, PredGuards, FALSE)

PredNext ==
    \/ \E name \in Names : AcquireConnection(name)
    \/ \E r \in Running : LoadMainIdx(r)
    \/ \E r \in Running : LoadGroupIdx(r)
    \/ \E r \in Running : TryAllocateLoad(r)
    \/ \E r \in Running : TryAllocateAdd(r)
    \/ \E r \in Running : StoreGroupIdx(r)
    \/ \E r \in Running : GroupIsExhausted(r)
    \/ \E r \in Running : StoreMainIdx(r)
    \/ \E name \in Names : ForceExactAcquireConnection(name)
    \/ \E r \in Running : KeepGuard(r)
    \/ \E r \in Running : DropExhausted(r)
    \/ \E name \in Names : GetNextProvider(name)
    \/ \E r \in Running : PeekLoadMainIdx(r)
    \/ \E r \in Running : PeekLoadGroupIdx(r)
    \/ \E r \in Running : GetNextLoad(r)
    \/ \E r \in Running : PeekStoreGroupIdx(r)
    \/ \E r \in Running : PeekGroupIsExhausted(r)
    \/ \E r \in Running : PeekStoreMainIdx(r)
    \/ \E r \in Running : ReturnValue(r)

PredSpec == PredInit /\ [][PredNext]_vars

-----------------------------------------------------------------------------
(* Properties.                                                             *)

\* Number of calls in progress or returned whose local state satisfies P.
CountCalls(P(_)) ==
    LET RECURSIVE Sum(_)
        Sum(S) == IF S = {} THEN 0
                  ELSE LET r == CHOOSE x \in S : TRUE
                       IN CopiesIn(r, th) + Sum(S \ {r})
    IN Sum({r \in Running : P(r)})

IsAvailable(r) == r.pc = "done" /\ r.res = "Available"

IsGracePeriod(r) == r.pc = "done" /\ r.res = "GracePeriod"

IsExhaustedResult(r) == r.pc = "done" /\ r.res = "Exhausted"

Min(a, b) == IF a < b THEN a ELSE b

\* No call in progress, no guard outstanding, no release task pending.
Quiescent == th = EmptyBag /\ TotalHeld = 0

\* C1: every provider with max_connections > 0 has, in every reachable
\* state, current_connections <= max_connections + 1.
C1_AtMostMaxPlusOne ==
    \A k \in Keys :
        Cfg(k).max_connections > 0 => Conn(k) <= Cfg(k).max_connections + 1

\* C2: when n threads each call acquire once on a single-provider lineup
\* with limit m and nothing is released, then once all have returned exactly
\* min(n, m) got Available, exactly one got GracePeriod if n > m, and all the
\* others got Exhausted.
C2_ConcurrentAcquireCounts ==
    LET n == maxThreads
        m == Cfg(<<1, 1, 1>>).max_connections
    IN CountCalls(LAMBDA r : r.pc = "done") = n =>
          /\ CountCalls(IsAvailable) = Min(n, m)
          /\ CountCalls(IsGracePeriod) = (IF n > m THEN 1 ELSE 0)
          /\ CountCalls(IsExhaustedResult) =
                 n - Min(n, m) - (IF n > m THEN 1 ELSE 0)

\* C3: once every granted guard has been dropped and every release task has
\* run (all acquires and releases balanced and completed), every provider's
\* current_connections is 0.
C3_BalancedReturnsToZero ==
    Quiescent => \A k \in Keys : Conn(k) = 0

\* C3 witness: all is balanced and completed after both siblings of a
\* group were granted (the group cursor moved) and released.
C3_Witness ==
    /\ Quiescent
    /\ \E l \in DOMAIN gidx : \E g \in DOMAIN gidx[l] : gidx[l][g] # 0
    /\ \A k \in Keys : Conn(k) = 0

\* The step taken removes one copy of local state r from th.
Left(r) == CopiesIn(r, th') < CopiesIn(r, th)

\* C4: dropping a guard granted on provider k schedules exactly one release
\* task, for k; that task decrements the counter of k, and no other, by
\* exactly 1 and then ends; dropping an Exhausted guard schedules nothing and
\* changes no counter.
C4_DropReleasesOnce ==
    [][/\ \A k \in Keys :
            Held(k)' < Held(k) =>
               /\ Held(k)' = Held(k) - 1
               /\ conn' = conn
               /\ \E tag \in BOOLEAN :
                     th' = th (+) SetToBag({[Fresh EXCEPT !.pc = "rel_load",
                               !.op = "release", !.gk = k, !.key = k,
                               !.tag = tag]})
       /\ \A r \in Running :
            (r.op = "release" /\ Left(r)) =>
               /\ Conn(r.gk) >= 1
               /\ held' = held
               /\ IF r.pc = "rel_load"
                  THEN /\ conn' = conn
                       /\ th' = (th (-) SetToBag({r})) (+)
                                SetToBag({[r EXCEPT !.pc = "rel_sub"]})
                  ELSE /\ conn' = [conn EXCEPT ![r.gk[1]][r.gk[2]][r.gk[3]]
                                                   = @ - 1]
                       /\ th' = th (-) SetToBag({r})
       /\ \A r \in Running :
            (IsExhaustedResult(r) /\ Left(r)) =>
               /\ th' = th (-) SetToBag({r})
               /\ UNCHANGED <<conn, held, gidx, midx>>]_vars

\* C4 witness: the release task of a guard granted on the second sibling
\* of a group is about to decrement that sibling's counter.
C4_Witness ==
    \E r \in Running :
        /\ r.pc = "rel_sub"
        /\ r.gk[3] = 2
        /\ r.key = r.gk
        /\ Conn(<<r.gk[1], r.gk[2], 1>>) > 0

TaggedRelease == \E r \in Running : r.tag

\* C5: the release task spawned by the drop of a granted guard eventually
\* runs to its end, and it ends with exactly one decrement of the counter of
\* the provider the guard was granted on, whatever is interleaved with it.
C5_ReleaseEventually ==
    /\ TaggedRelease ~> ~TaggedRelease
    /\ [][\A r \in Running :
            (r.tag /\ Left(r)) =>
               \/ r.pc = "rel_load" /\ conn' = conn /\
                  [r EXCEPT !.pc = "rel_sub"] \in BagToSet(th')
               \/ r.pc = "rel_sub" /\ ~TaggedRelease' /\
                  conn' = [conn EXCEPT ![r.gk[1]][r.gk[2]][r.gk[3]] = @ - 1]
         ]_vars

\* C5 witness: a followed release task has been spawned while another call
\* is in progress.
C5_Witness ==
    /\ \E r \in Running : r.tag /\ r.pc = "rel_load"
    /\ \E r \in Running : r.op # "release"

\* The counter of provider k at the time of the call whose local state is r
\* (history on).
SnapConn(r, k) == r.snap.conn[k[1]][k[2]][k[3]]

\* A lineup acquire (the name matched a provider) that has returned.
AcquireReturned(r) == r.pc = "done" /\ r.op = "acquire" /\ r.li # 0

Granted(r) == r.res \in {"Available", "GracePeriod"}

\* Provider k could not take a slot, strict or grace, at the time of call r.
NoSlotLeft(r, k) ==
    Cfg(k).max_connections > 0 /\ SnapConn(r, k) > Cfg(k).max_connections

\* Provider k had a free strict slot at the time of call r.
FreeStrictSlot(r, k) ==
    Cfg(k).max_connections = 0 \/ SnapConn(r, k) < Cfg(k).max_connections

\* C6: acquire returns Exhausted only when no provider of the lineup, in
\* any group (groups before main_idx included), could take a slot at the
\* time of the call: max_connections > 0 and counter > max_connections for
\* every one of them.
C6_ExhaustedMeansNoSlotAnywhere ==
    \A r \in Running :
        (AcquireReturned(r) /\ r.res = "Exhausted") =>
            \A k \in Keys : k[1] = r.li => NoSlotLeft(r, k)

\* C7: when acquire grants provider P, no provider in a group of lower
\* priority value than P's has, at the time of the call, a free strict slot.
C7_LowerPriorityValueFirst ==
    \A r \in Running :
        (AcquireReturned(r) /\ Granted(r)) =>
            \A k \in Keys :
                (k[1] = r.li /\ Cfg(k).priority < Cfg(r.key).priority) =>
                    ~FreeStrictSlot(r, k)

\* C8: acquire returns GracePeriod(P) only when, at the time of the call,
\* no provider of P's group has a free strict slot (counter below
\* max_connections).
C8_StrictBeforeGrace ==
    \A r \in Running :
        (AcquireReturned(r) /\ r.res = "GracePeriod") =>
            \A k \in Keys :
                (k[1] = r.key[1] /\ k[2] = r.key[2]) =>
                    ~(SnapConn(r, k) < Cfg(k).max_connections)

\* C9: when a release has left a provider with a free slot in a group that
\* main_idx has passed, repeated acquires do not return Exhausted forever.
\* An acquire that returns Exhausted and leaves every counter and cursor as
\* it found them is repeated identically by every later acquire, so no such
\* acquire may happen in that situation.  The slot is taken strictly free
\* (counter < max_connections): main_idx passes a group only when the group
\* is exhausted, so such a slot was freed by a release after the group was
\* passed.
C9_FreedSlotIsRevisited ==
    \A r \in Running :
        (/\ AcquireReturned(r) /\ r.res = "Exhausted"
         /\ r.snap = [conn |-> conn, gidx |-> gidx, midx |-> midx]) =>
            ~\E k \in Keys :
                /\ k[1] = r.li
                /\ k[2] - 1 < midx[r.li]
                /\ Conn(k) < Cfg(k).max_connections

\* C10: on a single-provider lineup with limit m and counter c at the time
\* of the call, acquire returns Available iff c < m, GracePeriod iff c = m
\* and Exhausted iff c > m; a grant adds exactly 1 to the counter and
\* Exhausted leaves it unchanged.
C10_SingleLineupAcquire ==
    \A r \in Running :
        (AcquireReturned(r) /\ lineups[r.li].kind = "Single") =>
            LET k == <<r.li, 1, 1>>
                c == SnapConn(r, k)
                m == Cfg(k).max_connections
            IN /\ (r.res = "Available") = (c < m)
               /\ (r.res = "GracePeriod") = (c = m)
               /\ (r.res = "Exhausted") = (c > m)
               /\ Conn(k) = (IF c <= m THEN c + 1 ELSE c)
               /\ Granted(r) => r.key = k

\* C10 witness: with limit 2, the grace slot is granted again after a
\* release took the counter from 3 back to 2 (two guards are still kept).
C10_Witness ==
    \E r \in Running :
        /\ AcquireReturned(r) /\ lineups[r.li].kind = "Single"
        /\ r.res = "GracePeriod"
        /\ Cfg(r.key).max_connections = 2
        /\ TotalHeld = 2
        /\ Conn(r.key) = 3

\* C11: on a fresh multi-provider lineup (all limits > 0) on which nothing
\* is released, successive acquires first grant every provider its
\* max_connections Available slots, groups in ascending priority value, then
\* one GracePeriod slot each, and return Exhausted only when every provider
\* is at max_connections + 1.  So at the time of a call that returns
\* Available(P), P is below its limit and no group of lower priority value
\* has a free strict slot; at the time of a call that returns GracePeriod(P),
\* P is at its limit and no provider of the lineup has a free strict slot
\* left; at the time of a call that returns Exhausted, every provider is at
\* its limit + 1.
C11_AvailableThenGraceThenExhausted ==
    \A r \in Running :
        (AcquireReturned(r) /\ lineups[r.li].kind = "Multi") =>
            LET Mine == {k \in Keys : k[1] = r.li}
                Max(k) == Cfg(k).max_connections
            IN /\ r.res = "Available" =>
                    /\ SnapConn(r, r.key) < Max(r.key)
                    /\ \A k \in Mine :
                           Cfg(k).priority < Cfg(r.key).priority =>
                               SnapConn(r, k) >= Max(k)
               /\ r.res = "GracePeriod" =>
                    /\ SnapConn(r, r.key) = Max(r.key)
                    /\ \A k \in Mine : SnapConn(r, k) >= Max(k)
               /\ r.res = "Exhausted" =>
                    \A k \in Mine : SnapConn(r, k) = Max(k) + 1

\* C12: siblings of one priority group are granted in rotation, in
\* declaration order from the shared cursor (0, the first-declared sibling,
\* on a fresh lineup): when an acquire is served by a group of several
\* providers whose sibling at the cursor has a free strict slot, it returns
\* Available for that sibling and moves the cursor to the next sibling, so
\* that consecutive acquires return distinct siblings, also after releases.
C12_SiblingsRotate ==
    \A r \in Running :
        (/\ AcquireReturned(r) /\ Granted(r)
         /\ GroupLen(r.key[1], r.key[2]) > 1) =>
            LET l == r.key[1]
                g == r.key[2]
                cur == r.snap.gidx[l][g]
                at == <<l, g, cur + 1>>
            IN SnapConn(r, at) < Cfg(at).max_connections =>
                  /\ r.res = "Available"
                  /\ r.key = at
                  /\ gidx[l][g] = (cur + 1) % GroupLen(l, g)

\* C12 witness: after releases the rotation went on from the cursor: the
\* third sibling was granted although the first was free again.
C12_Witness ==
    \E r \in Running :
        /\ AcquireReturned(r) /\ r.res = "Available"
        /\ r.key[3] = 3
        /\ r.snap.gidx[r.key[1]][r.key[2]] = 2
        /\ SnapConn(r, <<r.key[1], r.key[2], 1>>) = 0

\* C13: release never takes a counter below 0.  The counter is unsigned,
\* so going below 0 shows as wrapping around to a large value: no step of a
\* release, under any interleaving of releases (more releases than grants
\* included), leaves a counter larger than it found it.
C13_ReleaseNeverWraps ==
    [][(\E r \in Running : r.op = "release" /\ Left(r)) =>
          \A k \in Keys : Conn(k)' <= Conn(k)]_vars

\* The providers called name.
Matching(name) == {k \in Keys : Cfg(k).name = name}

\* The step starts and ends one call, whose returned state is r.
Returns(r) == r.pc = "done" /\ th' = th (+) SetToBag({r})

\* C14: force_exact_acquire_connection(name) on the name of a configured
\* provider returns an Available guard for that provider, whatever its
\* counter and limit, adds exactly 1 to that provider's counter and leaves
\* every other counter and every cursor unchanged; on a name that matches no
\* provider it returns Exhausted and changes nothing.
C14_ForceExactAcquire ==
    [][\A name \in Names :
          ForceExactAcquireConnection(name) =>
             \E r \in BagToSet(th') :
                /\ Returns(r) /\ r.op = "force"
                /\ UNCHANGED <<gidx, midx, held>>
                /\ IF Matching(name) # {}
                   THEN /\ r.res = "Available"
                        /\ r.key \in Matching(name)
                        /\ conn' = [conn EXCEPT
                                      ![r.key[1]][r.key[2]][r.key[3]] = @ + 1]
                   ELSE /\ r.res = "Exhausted"
                        /\ r.key = NoKey
                        /\ conn' = conn]_vars

\* C14 witness: a forced acquire was granted on a provider that was already
\* beyond its limit and its grace slot.
C14_Witness ==
    \E r \in Running :
        /\ r.pc = "done" /\ r.op = "force" /\ r.res = "Available"
        /\ Conn(r.key) > Cfg(r.key).max_connections + 1

\* C15: on a lineup whose only provider is unlimited (max_connections = 0)
\* every acquire returns Available, never GracePeriod or Exhausted, in any
\* interleaving with releases, and is_exhausted and is_over_limit are never
\* true of that provider.
C15_UnlimitedAlwaysAvailable ==
    /\ \A r \in Running :
          (AcquireReturned(r) /\ Cfg(<<r.li, 1, 1>>).max_connections = 0) =>
              r.res = "Available" /\ r.key = <<r.li, 1, 1>>
    /\ \A r \in Running : (r.pc = "done" /\ r.op = "over") => r.res = "false"
    /\ \A k \in Keys :
          Cfg(k).max_connections = 0 =>
              /\ ~IsExhausted(Cfg(k).max_connections, Conn(k))
              /\ ~IsOverLimit(Cfg(k).max_connections, Conn(k))

\* C15 witness: the unlimited provider granted a third slot while a release
\* was in progress.
C15_Witness ==
    /\ \E r \in Running :
          /\ AcquireReturned(r) /\ r.res = "Available"
          /\ Cfg(r.key).max_connections = 0
          /\ Conn(r.key) >= 3
    /\ \E r \in Running : r.op = "release"

\* The step starts and ends one call of operation op, which returns res for
\* no provider and leaves every counter and cursor as it was.
ReportsAbsence(op, res) ==
    /\ \E r \in BagToSet(th') :
          Returns(r) /\ r.op = op /\ r.res = res /\ r.key = NoKey /\ r.li = 0
    /\ UNCHANGED <<conn, gidx, midx, held>>

\* C16: every manager operation called with a name that matches no provider
\* of any lineup reports absence and changes no state: acquire_connection
\* and force_exact_acquire_connection return an Exhausted guard,
\* get_next_provider returns None, is_over_limit returns false,
\* release_connection starts a task that ends without an effect, and
\* dropping the Exhausted guard has no effect either; all counters and all
\* cursors are unchanged.
C16_UnknownNameChangesNothing ==
    [][/\ \A name \in {n \in Names : Matching(n) = {}} :
            /\ AcquireConnection(name) => ReportsAbsence("acquire", "Exhausted")
            /\ ForceExactAcquireConnection(name) =>
                  ReportsAbsence("force", "Exhausted")
            /\ GetNextProvider(name) => ReportsAbsence("next", "None")
            /\ IsOverLimitCall(name) => ReportsAbsence("over", "false")
            /\ ReleaseConnection(name) =>
                  /\ \E r \in BagToSet(th') :
                        /\ th' = th (+) SetToBag({r})
                        /\ r.op = "release" /\ r.key = NoKey
                  /\ UNCHANGED <<conn, gidx, midx, held>>
       /\ \A r \in Running :
            (r.key = NoKey /\ r.li = 0 /\ Left(r)) =>
               /\ th' = th (-) SetToBag({r})
               /\ UNCHANGED <<conn, gidx, midx, held>>]_vars

\* C16 witness: an acquire on a name that matches no provider has returned
\* its Exhausted guard while some provider has a connection open.
C16_Witness ==
    /\ \E r \in Running :
          r.pc = "done" /\ r.op = "acquire" /\ r.li = 0 /\ r.res = "Exhausted"
    /\ \E k \in Keys : Conn(k) > 0

\* The input configurations the specifications start from.
ModelInputs ==
    {CfgSingle(0), CfgSingle(1), CfgSingle(2), CfgPriority, CfgPair, CfgRing,
     CfgMixed, CfgUneven}

\* The names of the inputs the manager was built from (ConfigInput.name),
\* as opposed to the names of their aliases.
InputNames ==
    UNION {{c[i].name : i \in 1..Len(c)} :
             c \in {x \in ModelInputs : ManagerNew(x) = lineups}}

\* C17: acquire_connection looks a lineup up by input name only: called
\* with a name that is not the name of a registered input, the name of an
\* alias inside some lineup included, it returns an Exhausted guard and
\* allocates nothing (no counter differs from what it was at the call).
C17_AliasNameIsNotFound ==
    \A r \in Running :
        (r.pc = "done" /\ r.op = "acquire" /\ r.arg \notin InputNames) =>
            /\ r.res = "Exhausted"
            /\ conn = r.snap.conn

\* C18: get_next_provider never changes any provider's current_connections,
\* for any name and in any state: no step of a get_next_provider call, from
\* its start to the use of its result, changes a counter.
C18_GetNextCommitsNoSlot ==
    [][(\/ \E name \in Names : GetNextProvider(name)
        \/ \E r \in Running : r.op = "next" /\ Left(r)) =>
          conn' = conn]_vars

\* C18 witness: get_next_provider returned a provider whose counter is
\* still 0 while a sibling has a connection open.
C18_Witness ==
    \E r \in Running :
        /\ r.pc = "done" /\ r.op = "next" /\ r.res = "Some"
        /\ Conn(r.key) = 0
        /\ \E k \in Keys : k[1] = r.key[1] /\ Conn(k) > 0

\* A get_next_provider call on a name that matched a provider has returned.
GetNextReturned(r) == r.pc = "done" /\ r.op = "next" /\ r.li # 0

\* C19: in every state, for single-provider and multi-provider lineups
\* alike, get_next_provider returns Some(P) exactly when acquire_connection
\* called in that same state would return Available(P) or GracePeriod(P)
\* for the same provider P, and None exactly when that acquire would return
\* Exhausted.
C19_GetNextWalksLikeAcquire ==
    \A r \in Running :
        GetNextReturned(r) =>
            LET a == LineupAcquire(r.li, r.snap)
            IN /\ (r.res = "Some") = Granted(a)
               /\ (r.res = "None") = (a.res = "Exhausted")
               /\ r.res = "Some" => r.key = a.key

\* C20: on a lineup whose counters do not change, successive
\* get_next_provider calls visit every non-exhausted provider of the lineup
\* before any provider is returned a second time.  A call that returns
\* Some(P) and leaves every cursor as it found it is repeated identically by
\* the next call, which returns P a second time: so after such a call P is
\* the only non-exhausted provider of the lineup.
C20_GetNextVisitsAllBeforeRepeating ==
    \A r \in Running :
        (/\ GetNextReturned(r) /\ r.res = "Some"
         /\ r.snap = [conn |-> conn, gidx |-> gidx, midx |-> midx]) =>
            \A k \in Keys :
                (k[1] = r.li /\
                 ~IsExhausted(Cfg(k).max_connections, Conn(k))) => k = r.key

\* Every counter was 0 at the time of call r.
AllZeroAt(r) == \A k \in Keys : SnapConn(r, k) = 0

\* C21: after add_provider(input), when all counters are 0, the first
\* acquire_connection on the added input's name returns Available (not
\* GracePeriod, not Exhausted), whether the input has aliases or not and
\* whatever the limits and priorities are; it is granted on a provider of
\* the input's lineup, whose counter becomes 1.
C21_FirstAcquireIsAvailable ==
    \A r \in Running :
        (/\ r.pc = "done" /\ r.op = "acquire"
         /\ r.arg \in {config[i].name : i \in 1..Len(config)}
         /\ AllZeroAt(r)) =>
            /\ r.res = "Available"
            /\ r.key # NoKey /\ r.key[1] = r.li
            /\ config[r.li].name = r.arg
            /\ Conn(r.key) = 1

\* C21 witness: the first acquire on an input with aliases was granted on
\* an unlimited alias of lower priority value than the input's.
C21_Witness ==
    \E r \in Running :
        /\ AcquireReturned(r) /\ AllZeroAt(r)
        /\ r.arg = config[r.li].name
        /\ r.res = "Available"
        /\ Cfg(r.key).name # r.arg
        /\ Cfg(r.key).max_connections = 0
        /\ Cfg(r.key).priority < config[r.li].priority

\* C22: release_connection(name) with a name that matches a provider
\* decrements by exactly 1 (or leaves at 0) the counter of the first provider
\* with that name in scan order, and leaves every other provider's counter,
\* every group cursor and every main_idx unchanged: the task it starts is
\* for that provider, and each step of a release task either changes
\* nothing or takes its provider's counter from c >= 1 to c - 1.
C22_ReleaseDecrementsFirstMatch ==
    [][/\ \A name \in {n \in Names : Matching(n) # {}} :
            ReleaseConnection(name) =>
               /\ \E r \in BagToSet(th') :
                     /\ th' = th (+) SetToBag({r})
                     /\ r.op = "release"
                     /\ r.key = FirstKey(Matching(name))
               /\ UNCHANGED <<conn, gidx, midx, held>>
       /\ \A r \in Running :
            (r.op = "release" /\ r.key # NoKey /\ Left(r)) =>
               /\ UNCHANGED <<gidx, midx, held>>
               /\ \/ conn' = conn
                  \/ /\ Conn(r.key) >= 1
                     /\ conn' = [conn EXCEPT
                                   ![r.key[1]][r.key[2]][r.key[3]] = @ - 1]
      ]_vars

\* What active_connections reports of counters c: the providers whose
\* counter is not 0, each with its counter.
NonZero(c) ==
    {<<Cfg(k).name, c[k[1]][k[2]][k[3]]>> :
        k \in {j \in Keys : c[j[1]][j[2]][j[3]] > 0}}

\* An active_connections call that has returned.
ScanReturned(r) == r.pc = "done" /\ r.op = "active"

\* The statement of C23 as made: active_connections returns None exactly
\* when every provider's counter is 0, and otherwise exactly the providers
\* whose counter is not 0, each mapped to its current value.  The counters
\* meant are those of the state in which the call returns or, at least,
\* those of the state in which it was made.
C23_ActiveConnectionsIsSnapshot ==
    [][\A r \in BagToSet(th') :
          (ScanReturned(r) /\ CopiesIn(r, th') > CopiesIn(r, th)) =>
             \/ /\ r.map = NonZero(conn')
                /\ (r.res = "None") = (NonZero(conn') = {})
             \/ /\ r.map = NonZero(r.snap.conn)
                /\ (r.res = "None") = (NonZero(r.snap.conn) = {})]_vars

\* C23 (amended): active_connections changes no state; it loads the counter
\* of every provider once, in scan order, each load reading the counter as
\* it is at that moment, and returns the providers whose loaded value is not
\* 0, each mapped to the value loaded, or None when every loaded value is 0.
\* So when no counter changes during the call it returns exactly the
\* providers with a non-zero counter, each with its current value.
C23_ActiveConnectionsReportsLoads ==
    /\ [](\A r \in Running :
            ScanReturned(r) =>
               /\ Len(r.loads) = Cardinality(Keys)
               /\ r.map = {<<Cfg(KeyAt(i)).name, r.loads[i]>> :
                              i \in {j \in 1..Len(r.loads) : r.loads[j] > 0}}
               /\ (r.res = "None") = (\A i \in 1..Len(r.loads) : r.loads[i] = 0)
               /\ (\A i \in 1..Len(r.loads) :
                      r.loads[i] = SnapConn(r, KeyAt(i))) =>
                     r.map = NonZero(r.snap.conn))
    /\ [][\A r \in Running :
            (r.op = "active" /\ Left(r)) =>
               /\ UNCHANGED <<conn, gidx, midx, held>>
               /\ r.pc = "scan" =>
                     \E q \in BagToSet(th') :
                        /\ q.op = "active"
                        /\ q.loads = Append(r.loads, Conn(KeyAt(r.idx + 1)))
                        /\ th' = (th (-) SetToBag({r})) (+) SetToBag({q})]_vars

\* C23 witness: a call returned the first provider with a count of 1
\* although, when it returned, the second provider had a connection too
\* and, when it was made, no provider had one.
C23_Witness ==
    \E r \in Running :
        /\ ScanReturned(r)
        /\ r.map = {<<"p1", 1>>}
        /\ NonZero(r.snap.conn) = {}
        /\ NonZero(conn) = {<<"p1", 1>>, <<"p2", 1>>}

\* C24: is_over_limit(name) is true exactly when the named provider has
\* max_connections > 0 and counter > max_connections (so it is true in the
\* grace state counter = max_connections + 1, false at counter =
\* max_connections and never true of an unlimited provider), and it changes
\* nothing; is_exhausted is true of a provider exactly when max_connections
\* > 0 and counter >= max_connections: the walk over a group after a grant
\* stops with "not exhausted" at a member exactly when that fails of it.
C24_OverLimitAndExhausted ==
    [][/\ \A name \in {n \in Names : Matching(n) # {}} :
            IsOverLimitCall(name) =>
               LET k == FirstKey(Matching(name))
               IN /\ \E r \in BagToSet(th') :
                        /\ Returns(r) /\ r.op = "over" /\ r.key = k
                        /\ (r.res = "true") =
                              (/\ Cfg(k).max_connections > 0
                               /\ Conn(k) > Cfg(k).max_connections)
                        /\ (r.res = "false") = (r.res # "true")
                  /\ UNCHANGED <<conn, gidx, midx, held>>
       /\ \A r \in Running :
            (r.pc = "exh" /\ Left(r)) =>
               LET k == <<r.li, r.gi, r.ex>>
               IN (\E q \in BagToSet(th') :
                      q.pc = "done" /\ CopiesIn(q, th') > CopiesIn(q, th))
                  = ~(/\ Cfg(k).max_connections > 0
                      /\ Conn(k) >= Cfg(k).max_connections)]_vars

\* C24 witness: is_over_limit returned true of a provider in its grace
\* state (counter = max_connections + 1).
C24_Witness ==
    \E r \in Running :
        /\ r.pc = "done" /\ r.op = "over" /\ r.res = "true"
        /\ Conn(r.key) = Cfg(r.key).max_connections + 1

\* C25: try_allocate(grace) executed without interference on a provider
\* with counter c and limit max: if max = 0, or if c < max, it increments
\* the counter and returns Granted (code 1) for either value of grace; if
\* c = max (max > 0) it increments and returns Grace (code 2) when grace is
\* true and returns Denied without incrementing when grace is false; if
\* c > max (max > 0) it returns Denied without incrementing in either mode.
\* The load decides and changes nothing; the fetch_add that follows a
\* grant adds exactly 1 to that counter and to no other.
C25_TryAllocate ==
    [][\A r \in Running :
          LET k == <<r.li, r.gi, r.pi>>
              max == Cfg(k).max_connections
              c == Conn(k)
              Goes(code) == [r EXCEPT !.pc = "add", !.code = code]
                               \in BagToSet(th')
              Denied == \A q \in BagToSet(th') :
                           q.pc = "add" => q \in BagToSet(th)
          IN /\ (r.pc = "load" /\ Left(r)) =>
                  /\ UNCHANGED <<conn, gidx, midx, held>>
                  /\ (max = 0 \/ c < max) => Goes(1)
                  /\ (max > 0 /\ c = max /\ r.grace) => Goes(2)
                  /\ (max > 0 /\ c = max /\ ~r.grace) => Denied
                  /\ (max > 0 /\ c > max) => Denied
             /\ (r.pc = "add" /\ Left(r)) =>
                  /\ conn' = [conn EXCEPT ![k[1]][k[2]][k[3]] = c + 1]
                  /\ UNCHANGED <<gidx, midx, held>>
                  /\ (r.code = 1) = (max = 0 \/ c < max)
                  /\ (r.code = 2) = (max > 0 /\ c = max /\ r.grace)
                  /\ lineups[r.li].kind = "Single" =>
                        \E q \in BagToSet(th') :
                           /\ q.pc = "done" /\ q.key = k
                           /\ th' = (th (-) SetToBag({r})) (+) SetToBag({q})
                           /\ q.res = (IF r.code = 1 THEN "Available"
                                       ELSE "GracePeriod")]_vars

\* C25 witness: in a group, a strict request was denied at c = max and the
\* grace request that followed is about to increment the counter.
C25_Witness ==
    \E r \in Running :
        /\ r.pc = "add" /\ r.code = 2 /\ r.grace
        /\ lineups[r.li].kind = "Multi"
        /\ Conn(<<r.li, r.gi, r.pi>>) =
              Cfg(<<r.li, r.gi, r.pi>>).max_connections

\* C26: acquire_next_provider_from_group on a MultiProviderGroup, for a
\* given grace flag, returns Exhausted only if every provider of the group
\* denies try_allocate with that flag (providers at positions before the
\* cursor included): when the loop has ended without a grant and the cursor
\* is about to be stored, no member of the group would grant the request.
C26_DeniedOnlyIfAllDeny ==
    \A r \in Running :
        r.pc = "store_idx" =>
            \A i \in 1..GroupLen(r.li, r.gi) :
                TryAllocateCode(Cfg(<<r.li, r.gi, i>>).max_connections,
                                Conn(<<r.li, r.gi, i>>), r.grace) = 3

\* Every member of group g of lineup l has max_connections > 0 and counter
\* >= max_connections.
FullyExhausted(l, g) ==
    \A i \in 1..GroupLen(l, g) :
        /\ Cfg(<<l, g, i>>).max_connections > 0
        /\ Conn(<<l, g, i>>) >= Cfg(<<l, g, i>>).max_connections

MultiGroups(l) == {g \in 1..GroupCount(l) : GroupLen(l, g) > 1}

\* C28: in a group of several providers, a grant (acquire) or a hit (get_next)
\* at position j (0-based) stores (j+1) mod len into the group cursor; a walk
\* in which every visited provider denied stores the cursor advanced past the
\* last provider visited, which is the last of the group, so 0; the store
\* steps of both operations write the cursor and nothing else, and get_next
\* leaves every counter as it was at its call.
C28_GroupCursorStores ==
    /\ [](\A r \in Running :
            (r.pc = "done" /\ r.op \in {"acquire", "next"} /\ r.li # 0
                /\ lineups[r.li].kind = "Multi") =>
                LET l == r.li
                    hit == r.res \in {"Available", "GracePeriod", "Some"}
                IN /\ r.op = "next" => conn = r.snap.conn
                   /\ hit /\ r.key[2] \in MultiGroups(l) =>
                         gidx[l][r.key[2]] = r.key[3] % GroupLen(l, r.key[2])
                   /\ \A g \in MultiGroups(l) :
                         (g > r.snap.midx[l] /\ (hit => g < r.key[2])) =>
                             gidx[l][g] = 0)
    /\ [][\A r \in Running :
            (r.pc \in {"store_hit", "peek_store_hit", "store_idx",
                       "peek_store_idx"} /\ Left(r)) =>
                /\ gidx' = [gidx EXCEPT ![r.li][r.gi] =
                               IF r.pc \in {"store_hit", "peek_store_hit"}
                               THEN r.pi % GroupLen(r.li, r.gi)
                               ELSE 0]
                /\ UNCHANGED <<conn, midx, held>>]_vars

\* A get_next walk that started at a cursor other than 0, found every provider
\* it visited full, and is about to store the cursor.
C28_Witness ==
    \E r \in Running :
        /\ r.pc = "peek_store_idx"
        /\ ~r.grace
        /\ gidx[r.li][r.gi] > 0
        /\ conn = r.snap.conn

\* C29: under concurrent acquire and get_next calls, every group cursor is in
\* [0, group size) and every main index is in [0, number of groups), and every
\* call that is at a provider is at an existing provider of an existing group.
C29_CursorsInRange ==
    /\ \A l \in DOMAIN lineups :
          lineups[l].kind = "Multi" =>
              /\ midx[l] \in 0..(GroupCount(l) - 1)
              /\ \A g \in 1..GroupCount(l) :
                    gidx[l][g] \in 0..(GroupLen(l, g) - 1)
    /\ \A r \in Running :
          r.pc \in {"load", "add", "peek"} =>
              /\ r.gi \in 1..GroupCount(r.li)
              /\ r.pi \in 1..GroupLen(r.li, r.gi)

\* An acquire and a get_next are both in progress while a group cursor is at
\* its last position.
C29_Witness ==
    \E r1 \in Running, r2 \in Running :
        /\ r1.op = "acquire" /\ r1.pc \in {"load", "add"}
        /\ r2.op = "next" /\ r2.pc = "peek"
        /\ \E g \in MultiGroups(r1.li) :
              gidx[r1.li][g] = GroupLen(r1.li, g) - 1

\* The providers an input declares, in declaration order: the input itself,
\* then its aliases.
Declared(input) ==
    <<[id |-> input.id, name |-> input.name,
       max_connections |-> input.max_connections,
       priority |-> input.priority]>> \o
    [i \in 1..Len(input.aliases) |->
        [id |-> input.aliases[i].id, name |-> input.aliases[i].name,
         max_connections |-> input.aliases[i].max_connections,
         priority |-> input.aliases[i].priority]]

\* The position of provider p in the declaration order of input.
DeclaredAt(input, p) ==
    CHOOSE i \in 1..Len(Declared(input)) : Declared(input)[i] = p

\* The lineup built for config[l] has the shape add_provider gives it.
LineupShape(l) ==
    LET input == config[l]
        decl == Declared(input)
        mine == {k \in Keys : k[1] = l}
    IN IF Len(input.aliases) = 0
       THEN /\ lineups[l].kind = "Single"
            /\ lineups[l].providers = << <<decl[1]>> >>
       ELSE /\ lineups[l].kind = "Multi"
            /\ Cardinality(mine) = Len(decl)
            /\ \A i \in 1..Len(decl) :
                  Cardinality({k \in mine : Cfg(k) = decl[i]}) = 1
            /\ \A g \in 1..GroupCount(l) : GroupLen(l, g) >= 1
            /\ \A g \in 1..GroupCount(l), h \in 1..GroupCount(l) :
                  g < h => Cfg(<<l, g, 1>>).priority < Cfg(<<l, h, 1>>).priority
            /\ \A k \in mine, j \in mine :
                  k[2] = j[2] =>
                      /\ Cfg(k).priority = Cfg(j).priority
                      /\ k[3] < j[3] =>
                            DeclaredAt(input, Cfg(k)) < DeclaredAt(input, Cfg(j))

\* Every counter and cursor of the manager is 0.
AllAtZero ==
    /\ \A k \in Keys : Conn(k) = 0
    /\ \A l \in DOMAIN lineups :
          /\ midx[l] = 0
          /\ \A g \in 1..GroupCount(l) : gidx[l][g] = 0

\* C30: add_provider builds a Single lineup for an input without aliases and
\* otherwise a Multi lineup that holds the input and every alias exactly once,
\* in non-empty groups of strictly ascending priority, one priority per group,
\* declaration order inside a group; every counter and cursor starts at 0.
C30_AddProviderShape ==
    /\ AllAtZero
    /\ [](/\ Len(lineups) = Len(config)
          /\ \A l \in DOMAIN lineups : LineupShape(l))

\* A freshly built lineup of three providers in which an alias of lower
\* priority value comes first, alone, and the input shares the second group
\* with a later alias.
C30_Witness ==
    /\ th = EmptyBag
    /\ AllAtZero
    /\ lineups[1].kind = "Multi"
    /\ GroupCount(1) = 2
    /\ GroupLen(1, 1) = 1
    /\ GroupLen(1, 2) = 2
    /\ Cfg(<<1, 1, 1>>).id = 2
    /\ Cfg(<<1, 2, 1>>).id = 1
    /\ Cfg(<<1, 2, 2>>).id = 3

\* The largest group of lineup l.
MaxGroupLen(l) ==
    CHOOSE n \in {GroupLen(l, g) : g \in 1..GroupCount(l)} :
        \A g \in 1..GroupCount(l) : GroupLen(l, g) <= n

\* An upper bound on the steps a lineup call in local state r still takes:
\* the passes after the current one, the rest of the current pass, and the
\* steps that follow a hit.
Rank(r) ==
    IF r.pc = "done" \/ r.li = 0 THEN 0
    ELSE LET L == MaxGroupLen(r.li)
             len == GroupLen(r.li, r.gi)
             after == 2 * (GroupCount(r.li) - r.gi) + (IF r.grace THEN 0 ELSE 1)
         IN CASE r.pc \in {"load_main", "peek_main"} ->
                     2 * GroupCount(r.li) * (L + 2) + L + 5
              [] r.pc \in {"load_idx", "peek_idx"} ->
                     after * (L + 2) + (L + 2) + L + 4
              [] r.pc \in {"load", "peek"} ->
                     after * (L + 2) + (r.left + 2) + L + 4
              [] r.pc \in {"store_idx", "peek_store_idx"} ->
                     after * (L + 2) + 1 + L + 4
              [] r.pc = "add" -> len + 3
              [] r.pc \in {"store_hit", "peek_store_hit"} -> len + 2
              [] r.pc \in {"exh", "peek_exh"} -> len - r.ex + 2
              [] r.pc \in {"store_main", "peek_store_main"} -> 1
              [] OTHER -> 0

\* The step a lineup call in local state r takes next.
CallStep(r) ==
    \/ LoadMainIdx(r) \/ LoadGroupIdx(r) \/ TryAllocateLoad(r)
    \/ TryAllocateAdd(r) \/ StoreGroupIdx(r) \/ GroupIsExhausted(r)
    \/ StoreMainIdx(r)
    \/ PeekLoadMainIdx(r) \/ PeekLoadGroupIdx(r) \/ GetNextLoad(r)
    \/ PeekStoreGroupIdx(r) \/ PeekGroupIsExhausted(r) \/ PeekStoreMainIdx(r)

\* Every provider of lineup l is limited and above its limit in counters c:
\* try_allocate and get_next deny it with and without grace.
Saturated(l, c) ==
    \A k \in Keys :
        k[1] = l => /\ Cfg(k).max_connections > 0
                    /\ c[k[1]][k[2]][k[3]] > Cfg(k).max_connections

InCall(r) == r.op \in {"acquire", "next"} /\ r.pc # "done"

\* The call in local state r has not found a slot yet.
Looking(r) ==
    r.pc \in {"load_main", "load_idx", "load", "store_idx",
              "peek_main", "peek_idx", "peek", "peek_store_idx"}

C32_ReleasesLeadToIdle ==
    /\ [](\A k \in Keys :
            TryAllocateCode(Cfg(k).max_connections, 0, FALSE) = 1)
    /\ [][/\ \A r \in Running :
              (r.op = "release" /\ r.key # NoKey /\ Left(r)) =>
                  LET c == Conn(r.key)
                  IN /\ r.pc = "rel_load" =>
                           /\ conn' = conn
                           /\ th' = IF c > 0
                                    THEN SetToBag({[r EXCEPT !.pc = "rel_sub"]})
                                    ELSE EmptyBag
                     /\ r.pc = "rel_sub" =>
                           /\ c > 0
                           /\ conn' = [conn EXCEPT
                                         ![r.key[1]][r.key[2]][r.key[3]] = c - 1]
                           /\ th' = EmptyBag
          /\ \A r \in Running :
              (r.pc = "load" /\ ~r.grace /\ Conn(<<r.li, r.gi, r.pi>>) = 0
                  /\ Left(r)) =>
                  th' = SetToBag({[r EXCEPT !.pc = "add", !.code = 1]})]_vars

\* A release is about to take one slot off a counter that forced acquires
\* have taken beyond the grace slot.
C32_Witness ==
    \E r \in Running :
        /\ r.op = "release" /\ r.pc = "rel_sub"
        /\ Cfg(r.key).max_connections > 0
        /\ Conn(r.key) > Cfg(r.key).max_connections + 1

\* The call in local state q has just been told `true` by get_next.
PeekHit(q) ==
    \/ q.pc \in {"peek_store_hit", "peek_exh"}
    \/ q.pc = "done" /\ q.res = "Some"

\* C33: for every limit (0 included), counter value and grace flag, get_next
\* answers true exactly when try_allocate would return 1 (Available) or 2
\* (GracePeriod); the get_next of a call in progress answers so on the counter
\* it loads and leaves every counter unchanged, while the fetch_add of
\* try_allocate raises the counter of its provider by 1.
C33_GetNextSameAsTryAllocate ==
    /\ [](\A max \in 0..PredMax, c \in 0..(PredMax + 2), grace \in BOOLEAN :
            GetNextOk(max, c, grace) <=>
                TryAllocateCode(max, c, grace) \in {1, 2})
    /\ [][\A r \in Running :
            LET k == <<r.li, r.gi, r.pi>>
            IN /\ (r.pc = "peek" /\ Left(r)) =>
                     /\ conn' = conn
                     /\ \E q \in BagToSet(th') :
                           /\ th' = SetToBag({q})
                           /\ PeekHit(q) <=>
                                 TryAllocateCode(Cfg(k).max_connections,
                                                 Conn(k), r.grace) \in {1, 2}
               /\ (r.pc = "add" /\ Left(r)) =>
                     conn' = [conn EXCEPT ![k[1]][k[2]][k[3]] = Conn(k) + 1]]_vars

\* A get_next with grace is about to load a counter that is at its limit.
C33_Witness ==
    \E r \in Running :
        /\ r.pc = "peek" /\ r.grace
        /\ Cfg(<<r.li, r.gi, r.pi>>).max_connections > 0
        /\ Conn(<<r.li, r.gi, r.pi>>) = Cfg(<<r.li, r.gi, r.pi>>).max_connections

\* The acquire call in local state r has done its fetch_add.
Charged(r) ==
    \/ r.pc \in {"store_hit", "exh", "store_main"}
    \/ r.pc = "done" /\ r.res \in {"Available", "GracePeriod"}

\* The provider the call in local state r is at, or returned.
ChargedKey(r) == IF r.pc = "done" THEN r.key ELSE <<r.li, r.gi, r.pi>>

\* C34: at every point of an acquire call the counters are those of the state
\* the call was made in, but for one counter raised by exactly 1 once the call
\* has done its fetch_add; that counter is the one of the provider the call
\* returns, a provider of the lineup the name resolved to; a call that returns
\* Exhausted returns with every counter as it was.
C34_AcquireIncrementsOneCounter ==
    \A r \in Running :
        r.op = "acquire" =>
            /\ conn = IF Charged(r)
                      THEN [r.snap.conn EXCEPT
                              ![ChargedKey(r)[1]][ChargedKey(r)[2]]
                               [ChargedKey(r)[3]] = @ + 1]
                      ELSE r.snap.conn
            /\ r.pc = "done" =>
                  /\ r.res \in {"Available", "GracePeriod", "Exhausted"}
                  /\ r.res = "Exhausted" => r.key = NoKey
                  /\ r.res # "Exhausted" =>
                        r.key \in Keys /\ r.key[1] = r.li

\* A call that started at the first group of a lineup of two groups, was
\* denied there without and with grace, and returns a grace slot of the
\* second group.
C34_Witness ==
    \E r \in Running :
        /\ r.op = "acquire" /\ r.pc = "done" /\ r.res = "GracePeriod"
        /\ r.snap.midx[r.li] = 0
        /\ r.key[2] = 2

\* The slots of provider k that are taken and not yet given back, other than
\* by guards the callers keep: calls that have done their fetch_add on k or
\* returned a guard on k, and release tasks of dropped guards of k that have
\* not done their fetch_sub.
RECURSIVE CopiesOf(_)
CopiesOf(S) ==
    IF S = {} THEN 0
    ELSE LET r == CHOOSE x \in S : TRUE
         IN CopiesIn(r, th) + CopiesOf(S \ {r})

InFlight(k) ==
    CopiesOf({r \in Running :
                 \/ r.op \in {"acquire", "force"} /\ Charged(r)
                       /\ ChargedKey(r) = k
                 \/ r.op = "release" /\ r.gk = k})

DistinctNames ==
    \A k \in Keys, j \in Keys : Cfg(k).name = Cfg(j).name => k = j

\* C35: with distinct provider names and no release other than those of guard
\* drops, in every reachable state the counter of each provider is the number
\* of slots granted on it (guards kept, guards being returned, fetch_add done)
\* whose release has not done its fetch_sub yet.
C35_CounterCountsGuards ==
    DistinctNames =>
        \A k \in Keys : Conn(k) = Held(k) + InFlight(k)

\* On one provider at once: a guard kept, a release about to decrement, and a
\* call that has its slot.
C35_Witness ==
    \E k \in Keys, r1 \in Running, r2 \in Running :
        /\ DistinctNames
        /\ Held(k) > 0
        /\ r1.op = "release" /\ r1.gk = k /\ r1.pc = "rel_sub"
        /\ r2.op \in {"acquire", "force"} /\ Charged(r2) /\ ChargedKey(r2) = k

\* What acquire_connection returns on the lineup of the returned get_next call
\* r, from the state the get_next was called in and from the present state.
AcquireBefore(r) == LineupAcquire(r.li, r.snap)

AcquireAfter(r) ==
    LineupAcquire(r.li, [conn |-> conn, gidx |-> gidx, midx |-> midx])

\* C36 as stated: when a get_next_provider call has returned, acquire_connection
\* returns the same allocation (kind and provider) as it would have returned
\* had the get_next_provider call not been made.
C36_GetNextLeavesAcquireAlone ==
    \A r \in Running :
        GetNextReturned(r) => AcquireAfter(r) = AcquireBefore(r)

\* C36, amended: a get_next_provider call changes no counter; on a
\* single-provider lineup it changes no cursor either and acquire_connection
\* returns the same allocation after it as before it; on a multi-provider
\* lineup it may store group cursors and main_idx, and as long as main_idx is
\* what it was, acquire_connection is granted after it exactly when it was
\* before it.
C36_GetNextMovesCursorsOnly ==
    \A r \in Running :
        GetNextReturned(r) =>
            /\ conn = r.snap.conn
            /\ lineups[r.li].kind = "Single" =>
                  /\ gidx = r.snap.gidx
                  /\ midx = r.snap.midx
                  /\ AcquireAfter(r) = AcquireBefore(r)
            /\ midx = r.snap.midx =>
                  (AcquireAfter(r).res = "Exhausted") =
                      (AcquireBefore(r).res = "Exhausted")

\* A get_next_provider call has returned a provider of a ring and moved the
\* ring's cursor, so that acquire_connection now returns another provider
\* than it would have.
C36_Witness ==
    \E r \in Running :
        /\ GetNextReturned(r) /\ r.res = "Some"
        /\ conn = r.snap.conn
        /\ gidx # r.snap.gidx
        /\ Granted(AcquireBefore(r)) /\ Granted(AcquireAfter(r))
        /\ AcquireAfter(r).key # AcquireBefore(r).key

====
